---- MODULE Spec2Model ----
(***************************************************************************)
(* Task data engine of obsidian-task-consolidator: line parser, hierarchy  *)
(* builder, dependency resolver, document cache and task updater.          *)
(*                                                                         *)
(* A document is a sequence of lines.  A line is a record                  *)
(*   [indent, box, body]                                                   *)
(* indent: the leading whitespace, a sequence of " " and "\t";             *)
(* box   : the checkbox character (" ", "x", "X") or NOBOX for a line that *)
(*         does not match PATTERNS.TASK_LINE;                              *)
(* body  : the content after the checkbox, a sequence of tokens separated  *)
(*         by single blanks.                                               *)
(* A token is [k, s, parts]: a plain word, one bracket tag                 *)
(* ([done:..], [created:..], [priority:..], [repeat:..], [blocked-by:..],  *)
(* [blocks:..], [estimate:..], [logged:..]), a hashtag, or a               *)
(* "**a | b:**" label block whose fields are parts.                        *)
(***************************************************************************)
EXTENDS Integers, Sequences, FiniteSets, TLC

VARIABLES
  pLine,    \* parser harness: the line handed to parseTaskLine
  pTask,    \* parser harness: the task parsed from pLine
  pLine2,   \* parser harness: buildUpdatedLine(pTask, {})
  pTask2,   \* parser harness: the task parsed from pLine2
  pPc,      \* parser harness: "input", "parsed", "built", "reparsed"
  hIn,      \* hierarchy harness: the flat task list handed to buildTaskHierarchy
  hOut,     \* hierarchy harness: the root tasks it returned
  hPc,      \* hierarchy harness: "input", "built"
  vault,    \* the document store: path -> lines, for every existing document
  west,     \* the local time zone is west of UTC
  now,      \* Date.now(): a clock that ticks with every operation and event
  faults,   \* history: the number of store failures so far
  undoStack,\* TaskUpdater.undoStack, oldest entry first
  held,     \* the task object the caller of the updater holds
  last,     \* history: the last updater operation, its arguments and outcome
  trail,    \* history: the store before each update and delete not yet undone
  dAll,     \* dependency harness: the task universe
  dTask,    \* dependency harness: the task whose status is asked for
  dOut,     \* dependency harness: the DependencyStatus returned
  dPc,      \* dependency harness: "input", "asked", "done"
  mtime,    \* file.stat.mtime of every path (the last one, once deleted)
  cache,    \* TaskCache.cache: path -> [tasks, lastModified]
  allTasks, \* TaskCache.allTasks
  stats,    \* TaskCache.stats
  passes,   \* the refreshAll calls suspended at a document read
  refreshing, \* the number of refreshFile calls suspended at a read, per path
  refreshDue, \* the debounce timer of debouncedRefresh is armed
  passCount,  \* history: the number of refreshAll calls so far
  lastPass,   \* history: the refreshAll call that returned last
  cStep       \* history: the last step of the cache

parserVars == <<pLine, pTask, pLine2, pTask2, pPc>>
hierVars == <<hIn, hOut, hPc>>
storeVars == <<vault, west, now, faults>>
updaterVars == <<undoStack, held, last, trail>>
depVars == <<dAll, dTask, dOut, dPc>>
cacheVars ==
  <<mtime, cache, allTasks, stats, passes, refreshing, refreshDue, passCount, lastPass, cStep>>

vars == <<parserVars, hierVars, storeVars, updaterVars, depVars, cacheVars>>

----------------------------------------------------------------------------
(* Values *)

NULL == "<null>"
NOBOX == "none"
NoTask == [id |-> NULL]

STAGES == <<"Requested", "Staged", "In-Progress", "In-Review", "Completed">>
PRIORITIES == <<"high", "medium", "low">>
RECURRENCE_TYPES == <<"daily", "weekly", "monthly", "yearly", "custom">>

\* settings.customStages of the configuration under check
customStages == <<"Blocked">>

Range(s) == {s[i] : i \in 1..Len(s)}

Last(s) == s[Len(s)]

Front(s) == SubSeq(s, 1, Len(s) - 1)

RemoveAt(s, i) == SubSeq(s, 1, i - 1) \o SubSeq(s, i + 1, Len(s))

\* String.prototype.toLowerCase on the strings of the model
toLowerCase(s) ==
  CASE s = "X" -> "x"
    [] s = "High" -> "high"
    [] s = "HIGH" -> "high"
    [] s = "Low" -> "low"
    [] s = "Urgent" -> "urgent"
    [] s = "Daily" -> "daily"
    [] s = "Weekdays" -> "weekdays"
    [] OTHER -> s

\* [...new Set(xs)]: first occurrences, in order
RECURSIVE Dedupe(_)
Dedupe(xs) ==
  IF xs = <<>> THEN <<>>
  ELSE LET rest == Dedupe(Front(xs))
       IN IF Last(xs) \in Range(rest) THEN rest ELSE Append(rest, Last(xs))

RECURSIVE Flatten(_)
Flatten(ss) == IF ss = <<>> THEN <<>> ELSE Head(ss) \o Flatten(Tail(ss))

----------------------------------------------------------------------------
(* Tokens and lines *)

Tok(k, s, parts) == [k |-> k, s |-> s, parts |-> parts]
W(s) == Tok("word", s, <<>>)
TDone(d) == Tok("done", d, <<>>)
TCreated(d) == Tok("created", d, <<>>)
TPriority(p) == Tok("priority", p, <<>>)
TRepeat(r) == Tok("repeat", r, <<>>)
TBlockedBy(refs) == Tok("blockedBy", "", refs)
TBlocks(refs) == Tok("blocks", "", refs)
TEstimate(d) == Tok("estimate", d, <<>>)
TLogged(d) == Tok("logged", d, <<>>)
THash(t) == Tok("tag", t, <<>>)
TMeta(parts) == Tok("meta", "", parts)

Line(indent, box, body) == [indent |-> indent, box |-> box, body |-> body]
TextLine(body) == Line(<<>>, NOBOX, body)
EmptyLine == TextLine(<<>>)

----------------------------------------------------------------------------
(* Calendar (utils/dateUtils).  A Date is the number of its local calendar *)
(* day, day 1 being 2025-01-01, a Wednesday; the calendar covers           *)
(* CalendarYears years from 2025 on, none of them a leap year.             *)

CalendarYears == 2
CalendarDays == 1..(CalendarYears * 365)

DaysInMonth == <<31, 28, 31, 30, 31, 30, 31, 31, 30, 31, 30, 31>>
DaysBeforeMonth == <<0, 31, 59, 90, 120, 151, 181, 212, 243, 273, 304, 334>>

\* Date.getFullYear, getMonth (0-based), getDate, getDay (0 = Sunday)
getFullYear(date) == 2025 + ((date - 1) \div 365)
DayOfYear(date) == ((date - 1) % 365) + 1
getMonth(date) ==
  (CHOOSE m \in 1..12 : /\ DaysBeforeMonth[m] < DayOfYear(date)
                        /\ DayOfYear(date) <= DaysBeforeMonth[m] + DaysInMonth[m]) - 1
getDate(date) == DayOfYear(date) - DaysBeforeMonth[getMonth(date) + 1]
getDay(date) == (date + 2) % 7

\* new Date(year, month, day): month and day beyond their range roll over
NewDate(year, month, day) ==
  (year + (month \div 12) - 2025) * 365 + DaysBeforeMonth[(month % 12) + 1] + day

Pad2(n) == IF n < 10 THEN "0" \o ToString(n) ELSE ToString(n)

formatDateToISO(date) ==
  ToString(getFullYear(date)) \o "-" \o Pad2(getMonth(date) + 1) \o "-" \o Pad2(getDate(date))

\* the YYYY-MM-DD text of every day of the calendar, with its day
ISODates == {<<formatDateToISO(d), d>> : d \in CalendarDays}

\* the texts that name a day
ValidDates == {p[1] : p \in ISODates}
\* the texts PATTERNS.DATE matches: the last one has the shape of a date and
\* names no day
DateShaped == ValidDates \cup {"2025-02-31"}
\* the texts "Due YYYY-MM-DD", with their date
DueDates == {<<"Due " \o d, d>> : d \in DateShaped}

\* the day a valid YYYY-MM-DD text names
DayOfISO(dateStr) == (CHOOSE p \in ISODates : p[1] = dateStr)[2]

\* new Date(dateStr) reads the text as midnight UTC; the local calendar day
\* of that instant is the day before when the local zone is west of UTC.
\* The engine rolls a day number beyond the month over into the next month.
DateFromISO(dateStr, isWest) ==
  (IF dateStr = "2025-02-31" THEN NewDate(2025, 1, 31) ELSE DayOfISO(dateStr))
    - (IF isWest THEN 1 ELSE 0)

addDays(date, days) == date + days
addWeeks(date, weeks) == addDays(date, weeks * 7)
addMonths(date, months) == NewDate(getFullYear(date), getMonth(date) + months, getDate(date))
addYears(date, years) == NewDate(getFullYear(date) + years, getMonth(date), getDate(date))

\* Strings longer than VALIDATION_LIMITS.MAX_OWNER_LENGTH (50) and within
\* MAX_PROJECT_LENGTH (100), written here by a short name
LongNames == {"Quarterly-Platform-Migration-And-Consolidation-Programme"}
\* Strings with a character outside OWNER_PATTERN and PROJECT_PATTERN
BadNames == {"a@b"}

----------------------------------------------------------------------------
(* Validation (utils/validation) *)

\* validateDate(dateStr).isValid && sanitizedValue, for a non-empty string
validateDate(dateStr) == dateStr \in ValidDates

\* validateOwner(owner).isValid && sanitizedValue, for a non-empty string
validateOwner(owner) == owner \notin LongNames /\ owner \notin BadNames

\* validateProject(project).isValid && sanitizedValue, for a non-empty string
validateProject(project) == project \notin BadNames

\* validateLineNumber(lineNumber, fileLength): "" when valid, else the error
validateLineNumber(lineNumber, fileLength) ==
  IF lineNumber < 0 THEN "Line number must be a non-negative integer"
  ELSE IF lineNumber >= fileLength THEN "Line number exceeds file length"
  ELSE ""

----------------------------------------------------------------------------
(* Recurrence parsing *)

NoRecurrence == [type |-> "none", interval |-> -1, daysOfWeek |-> <<>>, rawString |-> ""]

Recurrence(type, interval, days, raw) ==
  [type |-> type, interval |-> interval, daysOfWeek |-> days, rawString |-> raw]

\* parseRecurrence(recurrenceStr): NoRecurrence stands for null; interval -1
\* for an absent interval
parseRecurrence(recurrenceStr) ==
  LET text == toLowerCase(recurrenceStr)
  IN CASE text \in Range(RECURRENCE_TYPES) -> Recurrence(text, -1, <<>>, recurrenceStr)
       [] text = "every 2 days" -> Recurrence("daily", 2, <<>>, recurrenceStr)
       [] text = "every 2 weeks" -> Recurrence("weekly", 2, <<>>, recurrenceStr)
       [] text = "every 3 months" -> Recurrence("monthly", 3, <<>>, recurrenceStr)
       [] text = "every mon,wed,fri" -> Recurrence("weekly", -1, <<1, 3, 5>>, recurrenceStr)
       [] text = "every sun" -> Recurrence("weekly", -1, <<0>>, recurrenceStr)
       [] text = "weekdays" -> Recurrence("weekly", -1, <<1, 2, 3, 4, 5>>, recurrenceStr)
       [] text = "weekends" -> Recurrence("weekly", -1, <<0, 6>>, recurrenceStr)
       [] OTHER -> NoRecurrence

----------------------------------------------------------------------------
(* Metadata parsing *)

EmptyMetadata ==
  [owner |-> NULL, dueDate |-> NULL, stage |-> NULL, project |-> NULL,
   priority |-> NULL, tags |-> <<>>, recurrence |-> NoRecurrence,
   completedDate |-> NULL, createdDate |-> NULL, blockedBy |-> <<>>,
   blocks |-> <<>>, estimate |-> NULL, timeLogged |-> NULL]

\* PATTERNS.DATE_WITH_PREFIX: the date of a part "YYYY-MM-DD" or
\* "Due YYYY-MM-DD", NULL when the part does not match
DateWithPrefix(part) ==
  IF part \in DateShaped THEN part
  ELSE IF \E p \in DueDates : p[1] = part
       THEN (CHOOSE p \in DueDates : p[1] = part)[2]
       ELSE NULL

classifyPart_noContinue(result, part, stages) ==
  IF DateWithPrefix(part) # NULL /\ validateDate(DateWithPrefix(part))
  THEN [result EXCEPT !.dueDate = DateWithPrefix(part)]
  ELSE IF part \in Range(stages) THEN [result EXCEPT !.stage = part]
  ELSE IF toLowerCase(part) \in Range(PRIORITIES)
  THEN [result EXCEPT !.priority = toLowerCase(part)]
  ELSE IF result.owner = NULL /\ validateOwner(part) THEN [result EXCEPT !.owner = part]
  ELSE IF result.project = NULL /\ validateProject(part) THEN [result EXCEPT !.project = part]
  ELSE result

\* one iteration of the for loop over the parts of a delimited label
classifyPart(result, part, stages) ==
  IF DateWithPrefix(part) # NULL
  THEN IF validateDate(DateWithPrefix(part))
       THEN [result EXCEPT !.dueDate = DateWithPrefix(part)]
       ELSE result
  ELSE IF part \in Range(stages) THEN [result EXCEPT !.stage = part]
  ELSE IF toLowerCase(part) \in Range(PRIORITIES)
  THEN [result EXCEPT !.priority = toLowerCase(part)]
  ELSE IF result.owner = NULL /\ validateOwner(part) THEN [result EXCEPT !.owner = part]
  ELSE IF result.project = NULL /\ validateProject(part) THEN [result EXCEPT !.project = part]
  ELSE result

RECURSIVE classifyParts(_, _, _)
classifyParts(result, parts, stages) ==
  IF parts = <<>> THEN result
  ELSE classifyParts(classifyPart(result, Head(parts), stages), Tail(parts), stages)

\* parseMetadataString(metadataStr, customStages).  rawParts is
\* metadataStr.split('|') with each piece trimmed: the label holds the
\* delimiter iff there is more than one piece.
parseMetadataString(rawParts, custom) ==
  LET allStages == STAGES \o custom
      parts == SelectSeq(rawParts, LAMBDA p : p # "")
      metadataStr == rawParts[1]
  IN IF Len(rawParts) > 1 THEN classifyParts(EmptyMetadata, parts, allStages)
     ELSE IF metadataStr \in DateShaped THEN [EmptyMetadata EXCEPT !.dueDate = metadataStr]
     ELSE IF metadataStr \in Range(allStages) THEN [EmptyMetadata EXCEPT !.stage = metadataStr]
     ELSE IF toLowerCase(metadataStr) \in Range(PRIORITIES)
     THEN [EmptyMetadata EXCEPT !.priority = toLowerCase(metadataStr)]
     ELSE [EmptyMetadata EXCEPT !.owner = metadataStr]

----------------------------------------------------------------------------
(* Inline tags (extractInlineMetadata) *)

FirstIndex(toks, Test(_)) ==
  IF \E i \in 1..Len(toks) : Test(toks[i])
  THEN CHOOSE i \in 1..Len(toks) : Test(toks[i]) /\ \A j \in 1..(i - 1) : ~Test(toks[j])
  ELSE 0

\* PATTERNS.COMPLETED_DATE and PATTERNS.CREATED_DATE are anchored at the end
\* of the text: only a trailing tag matches
EndsWithDateTag(toks, kind) ==
  Len(toks) > 0 /\ Last(toks).k = kind /\ Last(toks).s \in DateShaped

\* PATTERNS.PRIORITY: /\[priority:(high|medium|low)\]/i
IsPriorityTag(t) == t.k = "priority" /\ toLowerCase(t.s) \in Range(PRIORITIES)

\* PATTERNS.RECURRENCE: /\[repeat:([^\]]+)\]/i
IsRepeatTag(t) == t.k = "repeat"

\* The patterns of the dependency and duration tags, [blocked-by:..],
\* [blocks:..], [estimate:..] and [logged:..]
IsBlockedByTag(t) == t.k = "blockedBy"
IsBlocksTag(t) == t.k = "blocks"
IsEstimateTag(t) == t.k = "estimate"
IsLoggedTag(t) == t.k = "logged"

\* PATTERNS.TAGS: /#([\w\-_]+)/g
IsHashTag(t) == t.k = "tag"

\* String.prototype.replace with a non-global pattern: the first match goes
RemoveFirst(toks, Test(_)) ==
  IF FirstIndex(toks, Test) = 0 THEN toks ELSE RemoveAt(toks, FirstIndex(toks, Test))

\* the ids of every [blocked-by:a,b] (or [blocks:a,b]) tag, in text order
CollectIds(toks, Test(_)) ==
  Flatten([i \in 1..Len(toks) |->
             IF Test(toks[i]) THEN SelectSeq(toks[i].parts, LAMBDA id : id # "") ELSE <<>>])

\* the working state of extractInlineMetadata: the text still to scan and
\* the metadata found so far
InlineStart(text) ==
  [cleanText |-> text,
   metadata |-> [completedDate |-> NULL, createdDate |-> NULL, priority |-> NULL,
                 recurrence |-> NoRecurrence, blockedBy |-> <<>>, blocks |-> <<>>,
                 estimate |-> NULL, timeLogged |-> NULL, tags |-> <<>>]]

\* a trailing [done:..] or [created:..] tag is taken into field and removed
TakeTrailingDate(st, kind, field) ==
  IF EndsWithDateTag(st.cleanText, kind)
  THEN [cleanText |-> Front(st.cleanText),
        metadata |-> [st.metadata EXCEPT ![field] = Last(st.cleanText).s]]
  ELSE st

\* the first [priority:..] tag
TakePriority(st) ==
  IF FirstIndex(st.cleanText, IsPriorityTag) = 0 THEN st
  ELSE [cleanText |-> RemoveFirst(st.cleanText, IsPriorityTag),
        metadata |-> [st.metadata EXCEPT !.priority =
                        toLowerCase(st.cleanText[FirstIndex(st.cleanText, IsPriorityTag)].s)]]

\* the first [repeat:..] tag
TakeRecurrence(st) ==
  IF FirstIndex(st.cleanText, IsRepeatTag) = 0 THEN st
  ELSE [cleanText |-> RemoveFirst(st.cleanText, IsRepeatTag),
        metadata |-> [st.metadata EXCEPT !.recurrence =
                        parseRecurrence(st.cleanText[FirstIndex(st.cleanText, IsRepeatTag)].s)]]

\* every [blocked-by:..] tag
TakeBlockedBy(st) ==
  [cleanText |-> SelectSeq(st.cleanText, LAMBDA t : ~IsBlockedByTag(t)),
   metadata |-> [st.metadata EXCEPT !.blockedBy = CollectIds(st.cleanText, IsBlockedByTag)]]

\* every [blocks:..] tag
TakeBlocks(st) ==
  [cleanText |-> SelectSeq(st.cleanText, LAMBDA t : ~IsBlocksTag(t)),
   metadata |-> [st.metadata EXCEPT !.blocks = CollectIds(st.cleanText, IsBlocksTag)]]

\* the first [estimate:..] tag
TakeEstimate(st) ==
  IF FirstIndex(st.cleanText, IsEstimateTag) = 0 THEN st
  ELSE [cleanText |-> RemoveFirst(st.cleanText, IsEstimateTag),
        metadata |-> [st.metadata EXCEPT !.estimate =
                        st.cleanText[FirstIndex(st.cleanText, IsEstimateTag)].s]]

\* the first [logged:..] tag
TakeLogged(st) ==
  IF FirstIndex(st.cleanText, IsLoggedTag) = 0 THEN st
  ELSE [cleanText |-> RemoveFirst(st.cleanText, IsLoggedTag),
        metadata |-> [st.metadata EXCEPT !.timeLogged =
                        st.cleanText[FirstIndex(st.cleanText, IsLoggedTag)].s]]

HashTagNames(toks) == [i \in 1..Len(toks) |-> toLowerCase(toks[i].s)]

\* every #tag, lower-cased
TakeTags(st) ==
  [cleanText |-> SelectSeq(st.cleanText, LAMBDA t : ~IsHashTag(t)),
   metadata |-> [st.metadata EXCEPT !.tags = HashTagNames(SelectSeq(st.cleanText, IsHashTag))]]

\* the extraction steps in the order of the code
extractInlineMetadata(text) ==
  TakeTags(TakeLogged(TakeEstimate(TakeBlocks(TakeBlockedBy(TakeRecurrence(TakePriority(
    TakeTrailingDate(TakeTrailingDate(InlineStart(text), "done", "completedDate"),
                     "created", "createdDate"))))))))

----------------------------------------------------------------------------
(* Task parsing (parseTaskLine) *)

File(path, basename, parent) == [path |-> path, basename |-> basename, parent |-> parent]

\* `${file.path}:${lineNumber}`
TaskId(path, lineNumber) == path \o ":" \o ToString(lineNumber)

\* calculateIndentDepth: tabs count as two blanks, two blanks per level
calculateIndentDepth(indent) ==
  LET width == [i \in 1..Len(indent) |-> IF indent[i] = "\t" THEN 2 ELSE 1]
      Sum[i \in 0..Len(indent)] == IF i = 0 THEN 0 ELSE Sum[i - 1] + width[i]
  IN Sum[Len(indent)] \div 2

\* the ?? operator on the nullable strings of the model
Coalesce(a, b) == IF a # NULL THEN a ELSE b

\* PATTERNS.METADATA: the text starts with a "**..:**" label block
HasLabelBlock(taskContent) == Len(taskContent) > 0 /\ taskContent[1].k = "meta"

\* the task record parseTaskLine returns, from the inline metadata im, the
\* metadata pm of the label block (EmptyMetadata without one) and the
\* display text
MakeTask(line, file, lineNumber, im, hasBlock, pm, displayText) ==
  [id |-> TaskId(file.path, lineNumber),
   file |-> file,
   lineNumber |-> lineNumber,
   text |-> displayText,
   completed |-> toLowerCase(line.box) = "x",
   dueDate |-> pm.dueDate,
   owner |-> pm.owner,
   stage |-> pm.stage,
   project |-> pm.project,
   completedDate |-> Coalesce(im.completedDate, pm.completedDate),
   rawLine |-> line,
   priority |-> Coalesce(im.priority, pm.priority),
   tags |-> IF hasBlock THEN Dedupe(im.tags \o pm.tags) ELSE im.tags,
   recurrence |-> IF im.recurrence # NoRecurrence THEN im.recurrence ELSE pm.recurrence,
   parentId |-> NULL,
   children |-> <<>>,
   depth |-> calculateIndentDepth(line.indent),
   indent |-> line.indent,
   createdDate |-> Coalesce(im.createdDate, pm.createdDate),
   blockedBy |-> IF hasBlock THEN Dedupe(im.blockedBy \o pm.blockedBy) ELSE im.blockedBy,
   blocks |-> IF hasBlock THEN Dedupe(im.blocks \o pm.blocks) ELSE im.blocks,
   estimate |-> Coalesce(pm.estimate, im.estimate),
   timeLogged |-> Coalesce(pm.timeLogged, im.timeLogged)]

ParseContent(line, file, lineNumber, custom, inline) ==
  IF HasLabelBlock(inline.cleanText)
  THEN MakeTask(line, file, lineNumber, inline.metadata, TRUE,
                parseMetadataString(inline.cleanText[1].parts, custom),
                Tail(inline.cleanText))
  ELSE MakeTask(line, file, lineNumber, inline.metadata, FALSE, EmptyMetadata,
                inline.cleanText)

parseTaskLine(line, file, lineNumber, custom) ==
  IF line.box = NOBOX \/ line.body = <<>> THEN NoTask
  ELSE ParseContent(line, file, lineNumber, custom, extractInlineMetadata(line.body))

----------------------------------------------------------------------------
(* Line building (TaskUpdater.buildUpdatedLine) *)

\* getToday() of the run under check: Monday 2025-03-10
getToday == NewDate(2025, 2, 10)
Today == formatDateToISO(getToday)

\* a JavaScript string used as a condition: null and '' are false
Truthy(s) == s # NULL /\ s # ""

\* sanitizeOwner: strips what is outside [\w\s\-.'], cuts to 50 characters
sanitizeOwner(owner) ==
  IF ~Truthy(owner) THEN NULL
  ELSE CASE owner = "a@b" -> "ab"
         [] owner \in LongNames -> "Quarterly-Platform-Migration-And-Consolidation-Pro"
         [] OTHER -> owner

\* sanitizeProject: strips what is outside [\w\s\-_], cuts to 100 characters
sanitizeProject(project) ==
  IF ~Truthy(project) THEN NULL
  ELSE CASE project = "a@b" -> "ab"
         [] OTHER -> project

\* sanitizeTaskText: runs of whitespace become one blank, so the sequence of
\* blank-separated tokens is kept
sanitizeTaskText(text) == text

Upd(updates, field, default) == IF field \in DOMAIN updates THEN updates[field] ELSE default

buildUpdatedLine(task, updates) ==
  LET completed == Upd(updates, "completed", task.completed)
      checkbox == IF completed THEN "x" ELSE " "
      owner == IF "owner" \in DOMAIN updates THEN sanitizeOwner(updates.owner) ELSE task.owner
      dueDate == Upd(updates, "dueDate", task.dueDate)
      stage == Upd(updates, "stage", task.stage)
      project == IF "project" \in DOMAIN updates THEN sanitizeProject(updates.project)
                 ELSE task.project
      priority == Upd(updates, "priority", task.priority)
      text == IF "text" \in DOMAIN updates THEN sanitizeTaskText(updates.text) ELSE task.text
      tags == Upd(updates, "tags", task.tags)
      metadataParts ==
        (IF Truthy(owner) THEN <<owner>> ELSE <<>>)
        \o (IF Truthy(dueDate) THEN <<dueDate>> ELSE <<>>)
        \o (IF Truthy(stage) THEN <<stage>> ELSE <<>>)
        \o (IF Truthy(project) THEN <<project>> ELSE <<>>)
      l1 == IF Len(metadataParts) > 0 THEN <<TMeta(metadataParts)>> \o text ELSE text
      l2 == IF Truthy(priority) THEN Append(l1, TPriority(priority)) ELSE l1
      l3 == IF task.recurrence # NoRecurrence
            THEN Append(l2, TRepeat(task.recurrence.rawString)) ELSE l2
      l4 == l3 \o [i \in 1..Len(tags) |-> THash(tags[i])]
      l5 == IF completed /\ ~task.completed THEN Append(l4, TDone(Today))
            ELSE IF Truthy(task.completedDate) /\ completed
                 THEN Append(l4, TDone(task.completedDate))
                 ELSE l4
      l6 == IF Truthy(task.createdDate) THEN Append(l5, TCreated(task.createdDate)) ELSE l5
  IN Line(task.indent, checkbox, l6)

----------------------------------------------------------------------------
(* Documents and files *)

NotesFile == File("notes.md", "notes", "/")
PlanFile == File("proj/plan.md", "plan", "proj")
OldFile == File("archive/old.md", "old", "archive")

\* a.localeCompare(b) < 0 on the paths of the model
PathRank(path) ==
  CASE path = "archive/old.md" -> 1
    [] path = "notes.md" -> 2
    [] path = "proj/plan.md" -> 3
    [] OTHER -> 4

\* the loop of parseTasksFromFile over lines[i .. ], lines 0-based
RECURSIVE parseLines(_, _, _, _)
parseLines(lines, file, i, custom) ==
  IF i >= Len(lines) THEN <<>>
  ELSE LET task == parseTaskLine(lines[i + 1], file, i, custom)
       IN (IF task # NoTask THEN <<task>> ELSE <<>>) \o parseLines(lines, file, i + 1, custom)

----------------------------------------------------------------------------
(* Hierarchy (buildTaskHierarchy) *)

\* the comparator of the sort: file path, then line number
TaskBefore(a, b) ==
  IF a.file.path # b.file.path THEN PathRank(a.file.path) < PathRank(b.file.path)
  ELSE a.lineNumber < b.lineNumber

\* Array.prototype.sort is stable
RECURSIVE InsertSorted(_, _)
InsertSorted(sorted, t) ==
  IF sorted = <<>> \/ ~TaskBefore(t, Last(sorted)) THEN Append(sorted, t)
  ELSE Append(InsertSorted(Front(sorted), t), Last(sorted))

RECURSIVE SortTasks(_)
SortTasks(tasks) ==
  IF tasks = <<>> THEN <<>> ELSE InsertSorted(SortTasks(Front(tasks)), Last(tasks))

\* the condition of the while loop: the top of the stack cannot be the parent
NotPotentialParent_sameDepth(top, task) ==
  top.file.path # task.file.path \/ top.depth > task.depth

NotPotentialParent(top, task) ==
  top.file.path # task.file.path \/ top.depth >= task.depth

\* the while loop; the stack holds positions in the sorted list
RECURSIVE PopStack(_, _, _)
PopStack(stack, sorted, task) ==
  IF stack # <<>> /\ NotPotentialParent(sorted[Last(stack)], task)
  THEN PopStack(Front(stack), sorted, task)
  ELSE stack

\* the for loop over sorted[i .. ]: parent[j] is the position of the parent
\* of sorted[j], 0 for a root
RECURSIVE HierarchyLoop(_, _, _, _)
HierarchyLoop(sorted, i, stack, parent) ==
  IF i > Len(sorted) THEN parent
  ELSE LET task == sorted[i]
           popped == PopStack(stack, sorted, task)
           p == IF popped # <<>> /\ task.depth > 0 THEN Last(popped) ELSE 0
       IN HierarchyLoop(sorted, i + 1, Append(popped, i), [parent EXCEPT ![i] = p])

\* the task at position i with its parentId and its children, as the loop
\* leaves them: children in the order they were pushed
RECURSIVE LinkedTask(_, _, _)
LinkedTask(sorted, parent, i) ==
  LET kids == SelectSeq([j \in 1..Len(sorted) |-> j], LAMBDA j : parent[j] = i)
  IN [sorted[i] EXCEPT
        !.parentId = IF parent[i] = 0 THEN NULL ELSE sorted[parent[i]].id,
        !.children = [k \in 1..Len(kids) |-> LinkedTask(sorted, parent, kids[k])]]

buildTaskHierarchy(tasks) ==
  LET sorted == SortTasks(tasks)
      parent == HierarchyLoop(sorted, 1, <<>>, [j \in 1..Len(sorted) |-> 0])
      roots == SelectSeq([j \in 1..Len(sorted) |-> j], LAMBDA j : parent[j] = 0)
  IN [k \in 1..Len(roots) |-> LinkedTask(sorted, parent, roots[k])]

\* every task of a forest, parents before their children
RECURSIVE ForestTasks(_)
ForestTasks(roots) ==
  IF roots = <<>> THEN <<>>
  ELSE <<Head(roots)>> \o ForestTasks(Head(roots).children) \o ForestTasks(Tail(roots))

----------------------------------------------------------------------------
(* The document store (app.vault).  The store holds, for every existing    *)
(* path, the content of the document as the list of lines content.split    *)
(* gives.                                                                  *)

FileAt(path) ==
  CASE path = "notes.md" -> NotesFile
    [] path = "proj/plan.md" -> PlanFile
    [] OTHER -> OldFile

\* lines.join('\n') written and split again on the next read: no line at
\* all reads back as one empty line
StoredLines(lines) == IF lines = <<>> THEN <<EmptyLine>> ELSE lines

Min(a, b) == IF a < b THEN a ELSE b
Max(a, b) == IF a > b THEN a ELSE b

\* lines.splice(start, 0, item): start beyond the end is the end, a negative
\* start counts from the end
SpliceIn(lines, start, item) ==
  SubSeq(lines, 1, IF start < 0 THEN Max(Len(lines) + start, 0) ELSE Min(start, Len(lines)))
    \o <<item>>
    \o SubSeq(lines, (IF start < 0 THEN Max(Len(lines) + start, 0)
                      ELSE Min(start, Len(lines))) + 1, Len(lines))

\* lines.splice(start, 1), 0 <= start
SpliceOut(lines, start) == IF start < Len(lines) THEN RemoveAt(lines, start + 1) ELSE lines

\* lines[index] = item: an index beyond the end leaves holes, which join
\* writes as empty lines
SetAt(lines, index, item) ==
  IF index < Len(lines) THEN [lines EXCEPT ![index + 1] = item]
  ELSE lines \o [i \in 1..(index - Len(lines)) |-> EmptyLine] \o <<item>>

\* the message of the error a failing store call throws
StoreError == "store failure"

----------------------------------------------------------------------------
(* Task updater (core/taskUpdater) *)

maxUndoEntries == 50

\* settings.recurringAutoCreate of the configuration under check
recurringAutoCreate == TRUE

ModifiedError == "Task has been modified. Please refresh and try again."

Success == [success |-> TRUE, error |-> NULL]
Failed(error) == [success |-> FALSE, error |-> error]

\* what an operation leaves: the store, the undo stack, the result it
\* returns and the number of writes it made
Outcome(v, stack, result, writes) ==
  [vault |-> v, undoStack |-> stack, result |-> result, writes |-> writes]

UndoEntry(filePath, lineNumber, originalLine, newLine, timestamp) ==
  [filePath |-> filePath, lineNumber |-> lineNumber, originalLine |-> originalLine,
   newLine |-> newLine, timestamp |-> timestamp]

pushUndo_noShift(stack, entry) == Append(stack, entry)

pushUndo(stack, entry) ==
  IF Len(stack) + 1 > maxUndoEntries THEN Tail(Append(stack, entry)) ELSE Append(stack, entry)

\* an optional field of an options or updates object: NULL when absent
Opt(options, field) == IF field \in DOMAIN options THEN options[field] ELSE NULL

\* the smallest element of a non-empty set of numbers
Least(S) == CHOOSE x \in S : \A y \in S : x <= y

NextListedDay_sameDay(baseDate, daysOfWeek) ==
  IF \E d \in Range(daysOfWeek) : d >= getDay(baseDate)
  THEN addDays(baseDate, Least({d \in Range(daysOfWeek) : d >= getDay(baseDate)})
                           - getDay(baseDate))
  ELSE addDays(baseDate, 7 - getDay(baseDate) + Least(Range(daysOfWeek)))

\* the weekly rule with listed days: the next listed day after the base
\* date's weekday, else the first listed day of the next week
NextListedDay(baseDate, daysOfWeek) ==
  IF \E d \in Range(daysOfWeek) : d > getDay(baseDate)
  THEN addDays(baseDate, Least({d \in Range(daysOfWeek) : d > getDay(baseDate)})
                           - getDay(baseDate))
  ELSE addDays(baseDate, 7 - getDay(baseDate) + Least(Range(daysOfWeek)))

NextDate(baseDate, interval, recurrence) ==
  CASE recurrence.type = "daily" -> formatDateToISO(addDays(baseDate, interval))
    [] recurrence.type = "weekly" ->
         IF Len(recurrence.daysOfWeek) > 0
         THEN formatDateToISO(NextListedDay(baseDate, recurrence.daysOfWeek))
         ELSE formatDateToISO(addWeeks(baseDate, interval))
    [] recurrence.type = "monthly" -> formatDateToISO(addMonths(baseDate, interval))
    [] recurrence.type = "yearly" -> formatDateToISO(addYears(baseDate, interval))
    [] recurrence.type = "custom" -> formatDateToISO(addDays(baseDate, interval))
    [] OTHER -> NULL

calculateNextDueDate(currentDueDate, recurrence, isWest) ==
  NextDate(IF Truthy(currentDueDate) THEN DateFromISO(currentDueDate, isWest) ELSE getToday,
           IF recurrence.interval = -1 THEN 1 ELSE recurrence.interval,
           recurrence)

\* validateStage(stage, customStages).isValid, for a non-empty string
validateStage(stage, custom) == stage \in Range(STAGES \o custom)

\* the first failing validation of createTask, "" if there is none
CreateValidation(text, options) ==
  IF text = <<>> THEN "Task text cannot be empty"
  ELSE IF Truthy(Opt(options, "owner")) /\ ~validateOwner(options.owner)
  THEN "Owner name is not valid"
  ELSE IF Truthy(Opt(options, "dueDate")) /\ ~validateDate(options.dueDate)
  THEN "Invalid date value"
  ELSE IF Truthy(Opt(options, "project")) /\ ~validateProject(options.project)
  THEN "Project name is not valid"
  ELSE IF Truthy(Opt(options, "stage")) /\ ~validateStage(options.stage, customStages)
  THEN "Invalid stage"
  ELSE ""

CreateMetadataParts(options) ==
  (IF Truthy(Opt(options, "owner")) THEN <<sanitizeOwner(options.owner)>> ELSE <<>>)
  \o (IF Truthy(Opt(options, "dueDate")) THEN <<options.dueDate>> ELSE <<>>)
  \o (IF Truthy(Opt(options, "stage")) THEN <<options.stage>> ELSE <<>>)
  \o (IF Truthy(Opt(options, "project")) THEN <<sanitizeProject(options.project)>> ELSE <<>>)

\* the line createTask builds: "- [ ] " and the task line
CreateLine(text, options) ==
  Line(<<>>, " ",
       (IF Len(CreateMetadataParts(options)) > 0
        THEN <<TMeta(CreateMetadataParts(options))>> ELSE <<>>)
       \o sanitizeTaskText(text)
       \o (IF Truthy(Opt(options, "priority")) THEN <<TPriority(options.priority)>> ELSE <<>>)
       \o (IF "tags" \in DOMAIN options
           THEN [i \in 1..Len(options.tags) |-> THash(options.tags[i])] ELSE <<>>)
       \o <<TCreated(Today)>>)

\* options.atLine ?? lines.length
InsertAt(lines, options) == IF "atLine" \in DOMAIN options THEN options.atLine ELSE Len(lines)

\* fault names the store call that fails during the operation: "none",
\* "read" or "write"; "create" is a failure inside the createTask that
\* createNextRecurrence calls
createTask(v, stack, file, text, options, fault) ==
  IF CreateValidation(text, options) # ""
  THEN Outcome(v, stack, Failed(CreateValidation(text, options)), 0)
  ELSE IF file.path \notin DOMAIN v \/ fault \in {"read", "write"}
  THEN Outcome(v, stack, Failed(StoreError), 0)
  ELSE Outcome([v EXCEPT ![file.path] =
                  StoredLines(SpliceIn(v[file.path], InsertAt(v[file.path], options),
                                       CreateLine(text, options)))],
               stack, Success, 1)

\* the options createNextRecurrence hands to createTask
NextOccurrenceOptions(task, nextDueDate) ==
  [owner |-> task.owner, dueDate |-> nextDueDate, project |-> task.project,
   stage |-> "Requested", priority |-> task.priority, tags |-> task.tags]

\* the parser leaves recurrence.endDate unset, so the end-date test never
\* returns
createNextRecurrence(v, stack, task, fault, isWest) ==
  IF task.recurrence = NoRecurrence \/ ~recurringAutoCreate
     \/ calculateNextDueDate(task.dueDate, task.recurrence, isWest) = NULL
  THEN Outcome(v, stack, Success, 0)
  ELSE createTask(v, stack, task.file, task.text,
                  NextOccurrenceOptions(task,
                    calculateNextDueDate(task.dueDate, task.recurrence, isWest)),
                  IF fault = "create" THEN "read" ELSE "none")

\* lines[lineNumber] !== rawLine: an index beyond the end reads undefined
LineChanged_never(lines, lineNumber, rawLine) == FALSE

LineChanged(lines, lineNumber, rawLine) ==
  lineNumber >= Len(lines) \/ lines[lineNumber + 1] # rawLine

\* the task object updateTask returns
UpdatedTask(task, updates, updatedLine) ==
  [task EXCEPT
     !.rawLine = updatedLine,
     !.completed = Upd(updates, "completed", task.completed),
     !.text = Upd(updates, "text", task.text),
     !.owner = Upd(updates, "owner", task.owner),
     !.dueDate = Upd(updates, "dueDate", task.dueDate),
     !.stage = Upd(updates, "stage", task.stage),
     !.project = Upd(updates, "project", task.project),
     !.priority = Upd(updates, "priority", task.priority),
     !.tags = Upd(updates, "tags", task.tags)]

\* updateTask after the write of the updated line: the recurring task
AfterUpdateWrite(v, stack, task, updates, updatedLine, fault, isWest) ==
  IF Upd(updates, "completed", FALSE) /\ task.recurrence # NoRecurrence /\ ~task.completed
  THEN Outcome(createNextRecurrence(v, stack, task, fault, isWest).vault, stack,
               [success |-> TRUE, error |-> NULL,
                task |-> UpdatedTask(task, updates, updatedLine)],
               1 + createNextRecurrence(v, stack, task, fault, isWest).writes)
  ELSE Outcome(v, stack,
               [success |-> TRUE, error |-> NULL,
                task |-> UpdatedTask(task, updates, updatedLine)], 1)

\* updateTask from pushUndo on: stack already holds the new entry
WriteUpdate(v, stack, task, updates, updatedLine, fault, isWest) ==
  IF fault = "write" THEN Outcome(v, stack, Failed(StoreError), 0)
  ELSE AfterUpdateWrite(
         [v EXCEPT ![task.file.path] =
            StoredLines(SetAt(v[task.file.path], task.lineNumber, updatedLine))],
         stack, task, updates, updatedLine, fault, isWest)

updateTask(v, stack, clock, task, updates, fault, isWest) ==
  IF task.file.path \notin DOMAIN v THEN Outcome(v, stack, Failed("File not found"), 0)
  ELSE IF fault = "read" THEN Outcome(v, stack, Failed(StoreError), 0)
  ELSE IF validateLineNumber(task.lineNumber, Len(v[task.file.path])) # ""
  THEN Outcome(v, stack,
               Failed(validateLineNumber(task.lineNumber, Len(v[task.file.path]))), 0)
  ELSE IF LineChanged(v[task.file.path], task.lineNumber, task.rawLine)
  THEN Outcome(v, stack, Failed(ModifiedError), 0)
  ELSE WriteUpdate(v,
                   pushUndo(stack, UndoEntry(task.file.path, task.lineNumber,
                                             v[task.file.path][task.lineNumber + 1],
                                             buildUpdatedLine(task, updates), clock)),
                   task, updates, buildUpdatedLine(task, updates), fault, isWest)

\* the updates toggleTask hands to updateTask
ToggleUpdates(task) ==
  [completed |-> ~task.completed,
   stage |-> IF ~task.completed THEN "Completed"
             ELSE IF task.stage = "Completed" THEN NULL ELSE task.stage]

toggleTask(v, stack, clock, task, fault, isWest) ==
  updateTask(v, stack, clock, task, ToggleUpdates(task), fault, isWest)

\* the updates updateTaskStage hands to updateTask
StageUpdates(task, stage) ==
  IF stage = "Completed" THEN [stage |-> stage, completed |-> TRUE]
  ELSE IF task.completed THEN [stage |-> stage, completed |-> FALSE]
  ELSE [stage |-> stage]

updateTaskStage(v, stack, clock, task, stage, fault, isWest) ==
  updateTask(v, stack, clock, task, StageUpdates(task, stage), fault, isWest)

\* deleteTask from pushUndo on
WriteDelete(v, stack, task, fault) ==
  IF fault = "write" THEN Outcome(v, stack, Failed(StoreError), 0)
  ELSE Outcome([v EXCEPT ![task.file.path] =
                  StoredLines(SpliceOut(v[task.file.path], task.lineNumber))],
               stack, Success, 1)

deleteTask(v, stack, clock, task, fault) ==
  IF task.file.path \notin DOMAIN v \/ fault = "read"
  THEN Outcome(v, stack, Failed(StoreError), 0)
  ELSE IF LineChanged(v[task.file.path], task.lineNumber, task.rawLine)
  THEN Outcome(v, stack, Failed(ModifiedError), 0)
  ELSE WriteDelete(v,
                   pushUndo(stack, UndoEntry(task.file.path, task.lineNumber, task.rawLine,
                                             EmptyLine, clock)),
                   task, fault)

\* undo after the pop: stack is what is left, entry what was popped.  An
\* entry whose newLine is '' stands for a delete.
ReverseEntry(v, stack, entry, fault) ==
  IF entry.filePath \notin DOMAIN v THEN Outcome(v, stack, Failed("File not found"), 0)
  ELSE IF fault \in {"read", "write"} THEN Outcome(v, stack, Failed(StoreError), 0)
  ELSE Outcome([v EXCEPT ![entry.filePath] =
                  StoredLines(IF entry.newLine = EmptyLine
                              THEN SpliceIn(v[entry.filePath], entry.lineNumber,
                                            entry.originalLine)
                              ELSE SetAt(v[entry.filePath], entry.lineNumber,
                                         entry.originalLine))],
               stack, Success, 1)

undo(v, stack, fault) ==
  IF stack = <<>> THEN Outcome(v, stack, Failed("Nothing to undo"), 0)
  ELSE ReverseEntry(v, Front(stack), Last(stack), fault)

\* the BulkOperationResult after one more task: an error is listed as
\* task.text and the reason
Tally(result, task, r) ==
  IF r.success THEN [result EXCEPT !.successful = @ + 1]
  ELSE [result EXCEPT !.failed = @ + 1,
                      !.errors = IF Truthy(r.error) THEN Append(@, <<task.text, r.error>>)
                                 ELSE @]

NoneDone == [successful |-> 0, failed |-> 0, errors |-> <<>>]

\* one more call of a bulk operation: r is the outcome of updateTask or
\* deleteTask on the task
Accumulate(out, task, r) ==
  Outcome(r.vault, r.undoStack, Tally(out.result, task, r.result), out.writes + r.writes)

\* the loop of bulkUpdate over tasks[i ..]; fault is the store failure of
\* the call for tasks[faultAt]
RECURSIVE BulkUpdateFrom(_, _, _, _, _, _, _, _)
BulkUpdateFrom(out, clock, tasks, i, updates, fault, faultAt, isWest) ==
  IF i > Len(tasks) THEN out
  ELSE BulkUpdateFrom(
         Accumulate(out, tasks[i],
                    updateTask(out.vault, out.undoStack, clock, tasks[i], updates,
                               IF i = faultAt THEN fault ELSE "none", isWest)),
         clock, tasks, i + 1, updates, fault, faultAt, isWest)

bulkUpdate(v, stack, clock, tasks, updates, fault, faultAt, isWest) ==
  BulkUpdateFrom(Outcome(v, stack, NoneDone, 0), clock, tasks, 1, updates, fault, faultAt,
                 isWest)

DeletesBefore_ascending(a, b) ==
  IF a.file.path # b.file.path THEN PathRank(a.file.path) < PathRank(b.file.path)
  ELSE a.lineNumber < b.lineNumber

\* the comparator of bulkDelete: file path, then line number descending
DeletesBefore(a, b) ==
  IF a.file.path # b.file.path THEN PathRank(a.file.path) < PathRank(b.file.path)
  ELSE a.lineNumber > b.lineNumber

\* [...tasks].sort(comparator): stable insertion
RECURSIVE SortForDelete(_)
InsertForDelete(task, sorted) ==
  IF \E k \in 1..Len(sorted) : DeletesBefore(task, sorted[k])
  THEN SubSeq(sorted, 1, Least({k \in 1..Len(sorted) : DeletesBefore(task, sorted[k])}) - 1)
       \o <<task>>
       \o SubSeq(sorted, Least({k \in 1..Len(sorted) : DeletesBefore(task, sorted[k])}),
                 Len(sorted))
  ELSE Append(sorted, task)

SortForDelete(tasks) ==
  IF tasks = <<>> THEN <<>>
  ELSE InsertForDelete(tasks[Len(tasks)], SortForDelete(Front(tasks)))

RECURSIVE BulkDeleteFrom(_, _, _, _, _, _)
BulkDeleteFrom(out, clock, sorted, i, fault, faultAt) ==
  IF i > Len(sorted) THEN out
  ELSE BulkDeleteFrom(
         Accumulate(out, sorted[i],
                    deleteTask(out.vault, out.undoStack, clock, sorted[i],
                               IF i = faultAt THEN fault ELSE "none")),
         clock, sorted, i + 1, fault, faultAt)

bulkDelete(v, stack, clock, tasks, fault, faultAt) ==
  BulkDeleteFrom(Outcome(v, stack, NoneDone, 0), clock, SortForDelete(tasks), 1, fault,
                 faultAt)

----------------------------------------------------------------------------
(* Dependency resolver (utils/dependencyUtils) *)

\* the references of the model that hold '/' or '\'
PathLikeRefs == {"proj/plan.md:0", "proj/plan.md:1", "gone/old.md:2"}

\* shortId.includes('/') || shortId.includes('\\')
IsPathLike(ref) == ref \in PathLikeRefs

\* the key buildShortIdMap files a task under: basename:line
ShortKey(task) == task.file.basename \o ":" \o ToString(task.lineNumber)

\* Map.prototype.set
MapSet(map, key, value) ==
  [k \in DOMAIN map \cup {key} |-> IF k = key THEN value ELSE map[k]]

RECURSIVE buildShortIdMap(_)
buildShortIdMap(tasks) ==
  IF tasks = <<>> THEN <<>>
  ELSE MapSet(MapSet(buildShortIdMap(Front(tasks)), ShortKey(Last(tasks)), Last(tasks).id),
              Last(tasks).id, Last(tasks).id)

\* new Map(allTasks.map(t => [t.id, t]))
RECURSIVE TaskMap(_)
TaskMap(tasks) ==
  IF tasks = <<>> THEN <<>>
  ELSE MapSet(TaskMap(Front(tasks)), Last(tasks).id, Last(tasks))

resolveId(shortId, idMap) ==
  IF shortId \in DOMAIN idMap THEN idMap[shortId]
  ELSE IF IsPathLike(shortId) THEN shortId
  ELSE NULL

\* what one reference of task.blockedBy adds to blockedByTasks
BlockerOf(blockerId, idMap, taskMap) ==
  IF resolveId(blockerId, idMap) # NULL
  THEN IF /\ resolveId(blockerId, idMap) \in DOMAIN taskMap
          /\ ~taskMap[resolveId(blockerId, idMap)].completed
       THEN <<resolveId(blockerId, idMap)>>
       ELSE <<>>
  ELSE <<blockerId>>

\* what one reference of task.blocks adds to blocksTasks
BlockedOf(blockedId, idMap) ==
  IF resolveId(blockedId, idMap) # NULL THEN <<resolveId(blockedId, idMap)>>
  ELSE <<blockedId>>

\* the loop over allTasks[i ..]: the other tasks that name task in their
\* blockedBy, each pushed once
RECURSIVE ImpliedBlocks(_, _, _, _, _)
ImpliedBlocks(task, tasks, i, idMap, blocksTasks) ==
  IF i > Len(tasks) THEN blocksTasks
  ELSE ImpliedBlocks(task, tasks, i + 1, idMap,
         IF /\ tasks[i].id # task.id
            /\ \E j \in 1..Len(tasks[i].blockedBy) :
                 resolveId(tasks[i].blockedBy[j], idMap) = task.id
            /\ tasks[i].id \notin Range(blocksTasks)
         THEN Append(blocksTasks, tasks[i].id)
         ELSE blocksTasks)

DependencyStatus(blockedByTasks, blocksTasks) ==
  [isBlocked |-> Len(blockedByTasks) > 0,
   blockedByCount |-> Len(blockedByTasks),
   blocksCount |-> Len(blocksTasks),
   blockedByTasks |-> blockedByTasks,
   blocksTasks |-> blocksTasks]

StatusWith(task, tasks, idMap, taskMap) ==
  DependencyStatus(
    Flatten([i \in 1..Len(task.blockedBy) |-> BlockerOf(task.blockedBy[i], idMap, taskMap)]),
    ImpliedBlocks(task, tasks, 1, idMap,
                  Flatten([i \in 1..Len(task.blocks) |-> BlockedOf(task.blocks[i], idMap)])))

getDependencyStatus(task, tasks) ==
  StatusWith(task, tasks, buildShortIdMap(tasks), TaskMap(tasks))

getBlockedTasks(tasks) ==
  SelectSeq(tasks, LAMBDA t : ~t.completed /\ getDependencyStatus(t, tasks).isBlocked)

getReadyTasks(tasks) ==
  SelectSeq(tasks, LAMBDA t : ~t.completed /\ ~getDependencyStatus(t, tasks).isBlocked)

\* path.indexOf(id), 1-based, of an id that is on the path
IndexOf(path, id) == CHOOSE i \in 1..Len(path) : path[i] = id /\ \A j \in 1..(i - 1) : path[j] # id

\* detectCircularDependency: the cycle path, or << >> for null (a cycle
\* path is never empty).  visited and path are copied for every descent.
RECURSIVE detectCircularDependency(_, _, _, _, _, _)
RECURSIVE DetectThroughBlocks(_, _, _, _, _, _, _)
RECURSIVE DetectThroughBlockedBy(_, _, _, _, _, _, _, _)

\* the loop over task.blocks[i ..]
DetectThroughBlocks(task, tasks, visited, path, idMap, taskMap, i) ==
  IF i > Len(task.blocks) THEN <<>>
  ELSE IF /\ resolveId(task.blocks[i], idMap) # NULL
          /\ resolveId(task.blocks[i], idMap) \in DOMAIN taskMap
          /\ detectCircularDependency(taskMap[resolveId(task.blocks[i], idMap)], tasks,
                                      visited, path, idMap, taskMap) # <<>>
       THEN detectCircularDependency(taskMap[resolveId(task.blocks[i], idMap)], tasks,
                                     visited, path, idMap, taskMap)
  ELSE DetectThroughBlocks(task, tasks, visited, path, idMap, taskMap, i + 1)

\* the loop over allTasks[j ..] and, for allTasks[j], over blockedBy[k ..]
DetectThroughBlockedBy(task, tasks, visited, path, idMap, taskMap, j, k) ==
  IF j > Len(tasks) THEN <<>>
  ELSE IF tasks[j].id = task.id \/ k > Len(tasks[j].blockedBy)
       THEN DetectThroughBlockedBy(task, tasks, visited, path, idMap, taskMap, j + 1, 1)
  ELSE IF /\ resolveId(tasks[j].blockedBy[k], idMap) = task.id
          /\ detectCircularDependency(tasks[j], tasks, visited, path, idMap, taskMap) # <<>>
       THEN detectCircularDependency(tasks[j], tasks, visited, path, idMap, taskMap)
  ELSE DetectThroughBlockedBy(task, tasks, visited, path, idMap, taskMap, j, k + 1)

detectCircularDependency(task, tasks, visited, path, idMap, taskMap) ==
  IF task.id \in visited
  THEN SubSeq(path, IndexOf(path, task.id), Len(path)) \o <<task.id>>
  ELSE IF DetectThroughBlocks(task, tasks, visited \cup {task.id}, Append(path, task.id),
                              idMap, taskMap, 1) # <<>>
       THEN DetectThroughBlocks(task, tasks, visited \cup {task.id}, Append(path, task.id),
                                idMap, taskMap, 1)
  ELSE DetectThroughBlockedBy(task, tasks, visited \cup {task.id}, Append(path, task.id),
                              idMap, taskMap, 1, 1)


\* sorted.unshift(task)
Unshift_push(sorted, task) == Append(sorted, task)
Unshift(sorted, task) == <<task>> \o sorted

\* sortByDependencyOrder: visit(task) and its loop over task.blocks[i ..];
\* st is [visited, sorted]
RECURSIVE Visit(_, _, _, _)
RECURSIVE VisitBlocked(_, _, _, _, _)

VisitBlocked(task, i, st, idMap, taskMap) ==
  IF i > Len(task.blocks) THEN st
  ELSE VisitBlocked(task, i + 1,
                    IF /\ resolveId(task.blocks[i], idMap) # NULL
                       /\ resolveId(task.blocks[i], idMap) \in DOMAIN taskMap
                    THEN Visit(taskMap[resolveId(task.blocks[i], idMap)], st, idMap, taskMap)
                    ELSE st,
                    idMap, taskMap)

Visit(task, st, idMap, taskMap) ==
  IF task.id \in st.visited THEN st
  ELSE [visited |-> VisitBlocked(task, 1, [st EXCEPT !.visited = @ \cup {task.id}],
                                 idMap, taskMap).visited,
        sorted |-> Unshift(VisitBlocked(task, 1, [st EXCEPT !.visited = @ \cup {task.id}],
                                        idMap, taskMap).sorted,
                           task)]

\* the loop over tasks[i ..]
RECURSIVE VisitAll(_, _, _, _, _)
VisitAll(tasks, i, st, idMap, taskMap) ==
  IF i > Len(tasks) THEN st
  ELSE VisitAll(tasks, i + 1, Visit(tasks[i], st, idMap, taskMap), idMap, taskMap)

sortByDependencyOrder(tasks, all) ==
  VisitAll(tasks, 1, [visited |-> {}, sorted |-> <<>>], buildShortIdMap(all), TaskMap(tasks)).sorted


----------------------------------------------------------------------------
(* Task cache (core/taskCache).  The cache maps a path to its entry        *)
(* [tasks, lastModified]; allTasks is the forest rebuildAllTasks made of   *)
(* the entries.  refreshAll and refreshFile are async: each of them stops  *)
(* at the read of a document and goes on when the store has answered, and  *)
(* other handlers run in between.                                          *)

\* settings.excludedFolders and settings.excludedPatterns of the
\* configuration under check
excludedFolders == <<"archive">>
excludedPatterns == <<"drafts/*">>

Paths == {"notes.md", "proj/plan.md", "archive/old.md"}

\* file.path.endsWith('.md')
EndsWithMd(path) == path \in Paths

\* folderPath.startsWith(excluded + '/') on the folders of the model
StartsWithFolder(folderPath, excluded) == FALSE

\* new RegExp('^' + regex + '$').test(path): no path of the model is under
\* drafts/, and a pattern without wildcard matches the path it spells
matchGlob(path, pattern) ==
  IF pattern = "drafts/*" THEN FALSE ELSE path = pattern

shouldParseFile(file) ==
  /\ EndsWithMd(file.path)
  /\ ~\E i \in 1..Len(excludedFolders) :
        \/ file.parent = excludedFolders[i]
        \/ StartsWithFolder(file.parent, excludedFolders[i])
  /\ ~\E i \in 1..Len(excludedPatterns) : matchGlob(file.path, excludedPatterns[i])

\* parseTasksFromFile: a read that fails is caught and gives no task
parseTasksFromFile(v, file, fault) ==
  IF file.path \notin DOMAIN v \/ fault = "read" THEN <<>>
  ELSE parseLines(v[file.path], file, 0, customStages)

\* parseTaskLine throws: parseMetadataString, called for a task line with a
\* label block, spreads customStages; mergeSettings takes the value the
\* settings file holds as it is, a list (iterable) or not
Throws(line, iterable) ==
  /\ ~iterable
  /\ line.box # NOBOX
  /\ line.body # <<>>
  /\ HasLabelBlock(extractInlineMetadata(line.body).cleanText)

\* the try block of parseTasksFromFile from lines[i] on, lines 0-based: the
\* tasks pushed until the loop ends or parseTaskLine throws
RECURSIVE parseLinesCaught(_, _, _, _, _)
parseLinesCaught(lines, file, i, custom, iterable) ==
  IF i >= Len(lines) THEN <<>>
  ELSE IF Throws(lines[i + 1], iterable) THEN <<>>
  ELSE LET task == parseTaskLine(lines[i + 1], file, i, custom)
       IN (IF task # NoTask THEN <<task>> ELSE <<>>)
            \o parseLinesCaught(lines, file, i + 1, custom, iterable)

\* Map.prototype.delete
MapDelete(map, key) == [k \in DOMAIN map \ {key} |-> map[k]]

\* renameFile: the new value of the cache; the entry moves as it is
renameFile(c, oldPath, newPath) ==
  IF oldPath \in DOMAIN c THEN MapSet(MapDelete(c, oldPath), newPath, c[oldPath]) ELSE c

CacheEntry(tasks, lastModified) == [tasks |-> tasks, lastModified |-> lastModified]

\* the tasks of every entry; buildTaskHierarchy sorts them by path and
\* line, so the order of the entries in the Map does not show
EntryTasks(c) ==
  Flatten([i \in 1..3 |->
             IF <<"archive/old.md", "notes.md", "proj/plan.md">>[i] \in DOMAIN c
             THEN c[<<"archive/old.md", "notes.md", "proj/plan.md">>[i]].tasks
             ELSE <<>>])

\* rebuildAllTasks: the new value of allTasks
rebuildAllTasks(c) == buildTaskHierarchy(EntryTasks(c))

\* the statistics after rebuildAllTasks and stats.cachedFiles = cache.size
StatsAfterRebuild(st, c) ==
  [st EXCEPT !.totalTasks = Len(rebuildAllTasks(c)), !.cachedFiles = Cardinality(DOMAIN c)]

\* getTaskStats: the counts of the aggregate list
getTaskStats(tasks) ==
  [total |-> Len(tasks),
   completed |-> Len(SelectSeq(tasks, LAMBDA t : t.completed)),
   active |-> Len(SelectSeq(tasks, LAMBDA t : ~t.completed))]

\* the step of the for loop of refreshAll after the file at position i,
\* whether or not its read failed
NextIndex_abortOnFailure(i, n, failed) == IF failed THEN n + 1 ELSE i + 1
NextIndex(i, n, failed) == i + 1

\* the for loop of refreshAll from files[i] on, up to the next document it
\* has to read (at > 0, misses counted) or to the end of the list (at = 0)
RECURSIVE Advance(_, _, _, _, _)
Advance(files, i, c, st, mt) ==
  IF i > Len(files) THEN [at |-> 0, stats |-> st]
  ELSE IF ~shouldParseFile(FileAt(files[i])) THEN Advance(files, i + 1, c, st, mt)
  ELSE IF files[i] \in DOMAIN c /\ c[files[i]].lastModified = mt[files[i]]
       THEN Advance(files, i + 1, c, [st EXCEPT !.hits = @ + 1], mt)
  ELSE [at |-> i, stats |-> [st EXCEPT !.misses = @ + 1]]

----------------------------------------------------------------------------
(* Parser harness: parse a line, build it back with no change, parse again *)

\* longest line body the harness hands to the parser
MaxBody == 3

RtTokens ==
  {W("Ship"),
   TMeta(<<"John", "2025-03-01", "Requested">>),
   TMeta(<<"Website", "High", "Due 2025-03-05">>),
   TMeta(<<"John">>),
   TPriority("high"),
   TRepeat("Weekdays"),
   TBlockedBy(<<"notes:3">>),
   THash("Urgent"),
   TDone("2025-03-05"),
   TCreated("2025-03-01")}

RtBodies == UNION {[1..n -> RtTokens] : n \in 1..MaxBody}

RtLines == {Line(<<" ", " ">>, box, body) : box \in {" ", "x"}, body \in RtBodies}

ParserIdle ==
  /\ pLine = EmptyLine
  /\ pTask = NoTask
  /\ pLine2 = EmptyLine
  /\ pTask2 = NoTask
  /\ pPc = "off"

HierIdle == hIn = <<>> /\ hOut = <<>> /\ hPc = "off"

NoOperation == [op |-> "none"]

NoStatus == [isBlocked |-> FALSE, blockedByCount |-> 0, blocksCount |-> 0,
             blockedByTasks |-> <<>>, blocksTasks |-> <<>>]

DepIdle == dAll = <<>> /\ dTask = NoTask /\ dOut = NoStatus /\ dPc = "off"

NoPass == [id |-> 0, failed |-> {}, disturbed |-> FALSE]

NoStats == [totalFiles |-> 0, cachedFiles |-> 0, totalTasks |-> 0,
            hits |-> 0, misses |-> 0, lastRefresh |-> 0]

CacheIdle ==
  /\ mtime = <<>>
  /\ cache = <<>>
  /\ allTasks = <<>>
  /\ stats = NoStats
  /\ passes = {}
  /\ refreshing = <<>>
  /\ refreshDue = FALSE
  /\ passCount = 0
  /\ lastPass = NoPass
  /\ cStep = NoOperation

StoreIdle == vault = <<>> /\ west = FALSE /\ now = 0 /\ faults = 0

UpdaterIdle ==
  /\ undoStack = <<>>
  /\ held = NoTask
  /\ last = NoOperation
  /\ trail = <<>>

InitParser ==
  /\ DepIdle
  /\ CacheIdle
  /\ HierIdle
  /\ StoreIdle
  /\ UpdaterIdle
  /\ pLine \in RtLines
  /\ pTask = NoTask
  /\ pLine2 = EmptyLine
  /\ pTask2 = NoTask
  /\ pPc = "input"

RtParse ==
  /\ pPc = "input"
  /\ pTask' = parseTaskLine(pLine, NotesFile, 0, customStages)
  /\ pPc' = "parsed"
  /\ UNCHANGED <<pLine, pLine2, pTask2, hierVars, storeVars, updaterVars, depVars, cacheVars>>

RtBuild ==
  /\ pPc = "parsed"
  /\ pTask # NoTask
  /\ pLine2' = buildUpdatedLine(pTask, <<>>)
  /\ pPc' = "built"
  /\ UNCHANGED <<pLine, pTask, pTask2, hierVars, storeVars, updaterVars, depVars, cacheVars>>

RtReparse ==
  /\ pPc = "built"
  /\ pTask2' = parseTaskLine(pLine2, NotesFile, 0, customStages)
  /\ pPc' = "reparsed"
  /\ UNCHANGED <<pLine, pTask, pLine2, hierVars, storeVars, updaterVars, depVars, cacheVars>>

NextParser == RtParse \/ RtBuild \/ RtReparse

SpecRoundTrip == InitParser /\ [][NextParser]_vars

\* the fields the round trip is to keep
RoundTripFields(t) ==
  <<t.text, t.dueDate, t.completedDate, t.createdDate, t.owner, t.project, t.stage,
    t.priority, t.tags, t.recurrence.rawString, t.blockedBy, t.blocks>>

\* a well-formed line: every tag of the line was recognised, so the display
\* text is plain words
WellFormed(t) == t # NoTask /\ \A i \in 1..Len(t.text) : t.text[i].k = "word"

\* C9: a task parsed from a well-formed line, built back with no field
\* change and parsed again, is a task with the same text, dates, owner,
\* project, stage, priority, tags, recurrence rule text and dependency
\* reference lists.
C9_RoundTrip ==
  (pPc = "reparsed" /\ WellFormed(pTask)) =>
    (pTask2 # NoTask /\ RoundTripFields(pTask2) = RoundTripFields(pTask))

----------------------------------------------------------------------------
(* Hierarchy harness: the tasks of two documents, handed over in either    *)
(* order of the documents                                                  *)

\* lines of the first document; the second one has two lines fewer
HMaxLines == 3
\* deepest indentation level of a line
HMaxDepth == 2

Spaces(n) == [i \in 1..n |-> " "]

\* a line of the harness: not a task, or a task indented to level d
HLines == {TextLine(<<W("Notes")>>)}
            \cup {Line(Spaces(2 * d), " ", <<W("Task")>>) : d \in 0..HMaxDepth}
            \cup {Line(<<"\t">>, "x", <<W("Task")>>)}

InitHierarchy ==
  /\ DepIdle
  /\ CacheIdle
  /\ ParserIdle
  /\ StoreIdle
  /\ UpdaterIdle
  /\ \E d1 \in [1..HMaxLines -> HLines], d2 \in [1..(HMaxLines - 2) -> HLines],
        notesFirst \in BOOLEAN :
       LET t1 == parseLines(d1, NotesFile, 0, customStages)
           t2 == parseLines(d2, PlanFile, 0, customStages)
       IN hIn = IF notesFirst THEN t1 \o t2 ELSE t2 \o t1
  /\ hOut = <<>>
  /\ hPc = "input"

HBuild ==
  /\ hPc = "input"
  /\ hOut' = buildTaskHierarchy(hIn)
  /\ hPc' = "built"
  /\ UNCHANGED <<hIn, parserVars, storeVars, updaterVars, depVars, cacheVars>>

NextHierarchy == HBuild

SpecHierarchy == InitHierarchy /\ [][NextHierarchy]_vars

\* the task that is the parent of t by the rule of the claim: the nearest
\* task before t in its document whose depth is smaller; NULL if t has depth
\* 0 or no such task exists
NearestShallower(t, tasks) ==
  LET cands == {u \in Range(tasks) : /\ u.file.path = t.file.path
                                     /\ u.lineNumber < t.lineNumber
                                     /\ u.depth < t.depth}
  IN IF t.depth = 0 \/ cands = {} THEN NULL
     ELSE (CHOOSE u \in cands : \A v \in cands : v.lineNumber <= u.lineNumber).id

\* C8: every task gets as parent the nearest preceding task of its document
\* with strictly smaller depth, or is a root when it has depth 0 or there is
\* none; the roots are exactly the tasks without parent, the children of a
\* task exactly the tasks whose parent it is, and every input task is in
\* the forest exactly once.
C8_Hierarchy ==
  hPc = "built" =>
    LET out == ForestTasks(hOut)
    IN /\ Len(out) = Len(hIn)
       /\ {t.id : t \in Range(out)} = {t.id : t \in Range(hIn)}
       /\ \A t \in Range(out) :
            /\ t.parentId = NearestShallower(t, hIn)
            /\ \A c \in Range(t.children) : c.parentId = t.id
       /\ \A r \in Range(hOut) : r.parentId = NULL

\* a depth jump: a task two or more levels deeper than its parent, and a
\* task that is a root although it is indented
C8_Witness ==
  /\ hPc = "built"
  /\ \E t \in Range(ForestTasks(hOut)) :
       \E c \in Range(t.children) : c.depth >= t.depth + 2
  /\ \E r \in Range(hOut) : r.depth > 0

----------------------------------------------------------------------------
(* Updater harness: a caller that picks tasks from a parse of the store    *)
(* and runs updater operations on them, a user who edits the document in   *)
(* the editor, and a store that may fail.  Each operation runs to its end  *)
(* before the next event.                                                  *)

\* operations and editor events of one run
MaxOps == 2
\* store failures of one run
MaxFaults == 1
\* largest atLine handed to createTask
MaxAtLine == 5

RecurringLine ==
  Line(<<>>, " ", <<TMeta(<<"Ann", "2025-03-03">>), W("Water"), TRepeat("daily")>>)
DoneLine == Line(<<" ", " ">>, "x", <<W("Buy"), THash("shop"), TDone("2025-03-05")>>)
CallLine == Line(<<>>, " ", <<W("Call")>>)
HeadingLine == TextLine(<<W("Garden")>>)

\* the documents notes.md starts with
InitialNotes == {<<HeadingLine, RecurringLine, DoneLine>>, <<CallLine>>}

UpdateInputs ==
  {[completed |-> TRUE],
   [owner |-> "Bob", dueDate |-> NULL],
   [text |-> <<W("Mow")>>, priority |-> "high", tags |-> <<"yard">>]}

StageInputs == {"In-Progress", "Completed"}

\* the atLine values handed to createTask: before the start, inside a
\* document, and beyond the end of every document of the run
AtLines == {-1, 1, MaxAtLine}

CreateInputs ==
  {<<<<>>, <<>>>>,
   <<<<W("Plant")>>, <<>>>>,
   <<<<W("Plant")>>, [owner |-> "Ann", stage |-> "Staged", priority |-> "low"]>>,
   <<<<W("Plant")>>, [dueDate |-> "2025-02-31"]>>}
    \cup {<<<<W("Plant")>>, [atLine |-> k]>> : k \in AtLines}

Faults == {"none", "read", "write", "create"}

\* the tasks a parse of the store shows
VisibleTasks ==
  UNION {Range(parseLines(vault[p], FileAt(p), 0, customStages)) : p \in DOMAIN vault}

InitUpdater ==
  /\ DepIdle
  /\ CacheIdle
  /\ ParserIdle
  /\ HierIdle
  /\ UpdaterIdle
  /\ \E doc \in InitialNotes : vault = [p \in {"notes.md"} |-> doc]
  /\ west \in BOOLEAN
  /\ now = 0
  /\ faults = 0

\* the caller takes a task from a fresh parse of the store
Refresh ==
  /\ now < MaxOps
  /\ \E t \in VisibleTasks : held' = t
  /\ UNCHANGED <<parserVars, hierVars, storeVars, undoStack, last, trail, depVars, cacheVars>>

\* the end of every updater operation
Commit(op, task, args, fault, out, newTrail) ==
  /\ fault = "none" \/ faults < MaxFaults
  /\ vault' = out.vault
  /\ undoStack' = out.undoStack
  /\ last' = [op |-> op, task |-> task, args |-> args, fault |-> fault,
              before |-> vault, after |-> out.vault, result |-> out.result,
              writes |-> out.writes, trail |-> trail]
  /\ trail' = newTrail
  /\ now' = now + 1
  /\ faults' = faults + (IF fault = "none" THEN 0 ELSE 1)
  /\ UNCHANGED <<parserVars, hierVars, west, held, depVars, cacheVars>>

\* trail after an update or a delete: a success adds the store it started
\* from; a failure that left an entry on the stack ends the record
TrailAfterChange(out) ==
  IF out.result.success THEN Append(trail, vault)
  ELSE IF out.undoStack # undoStack THEN <<>> ELSE trail

TrailAfterUndo(out) ==
  IF out.result.success THEN (IF trail = <<>> THEN <<>> ELSE Front(trail))
  ELSE IF out.undoStack # undoStack THEN <<>> ELSE trail

TrailAfterCreate(out) == IF out.result.success THEN <<>> ELSE trail

UpdateTask ==
  /\ now < MaxOps
  /\ held # NoTask
  /\ \E updates \in UpdateInputs, fault \in Faults :
       Commit("updateTask", held, updates, fault,
              updateTask(vault, undoStack, now, held, updates, fault, west),
              TrailAfterChange(updateTask(vault, undoStack, now, held, updates, fault, west)))

ToggleTask ==
  /\ now < MaxOps
  /\ held # NoTask
  /\ \E fault \in Faults :
       Commit("toggleTask", held, <<>>, fault,
              toggleTask(vault, undoStack, now, held, fault, west),
              TrailAfterChange(toggleTask(vault, undoStack, now, held, fault, west)))

UpdateTaskStage ==
  /\ now < MaxOps
  /\ held # NoTask
  /\ \E stage \in StageInputs, fault \in Faults :
       Commit("updateTaskStage", held, [stage |-> stage], fault,
              updateTaskStage(vault, undoStack, now, held, stage, fault, west),
              TrailAfterChange(updateTaskStage(vault, undoStack, now, held, stage, fault, west)))

DeleteTask ==
  /\ now < MaxOps
  /\ held # NoTask
  /\ \E fault \in Faults \ {"create"} :
       Commit("deleteTask", held, <<>>, fault,
              deleteTask(vault, undoStack, now, held, fault),
              TrailAfterChange(deleteTask(vault, undoStack, now, held, fault)))

CreateTask ==
  /\ now < MaxOps
  /\ \E in \in CreateInputs, fault \in Faults \ {"create"} :
       Commit("createTask", NoTask, in[2], fault,
              createTask(vault, undoStack, NotesFile, in[1], in[2], fault),
              TrailAfterCreate(createTask(vault, undoStack, NotesFile, in[1], in[2], fault)))

Undo ==
  /\ now < MaxOps
  /\ \E fault \in Faults \ {"create"} :
       Commit("undo", NoTask, <<>>, fault,
              undo(vault, undoStack, fault),
              TrailAfterUndo(undo(vault, undoStack, fault)))

BulkInputs == {[completed |-> TRUE], [stage |-> "In-Progress", owner |-> "Bob"]}

\* the tasks of a fresh parse of notes.md, in document order: the
\* selection handed to the bulk operations
Selection ==
  IF "notes.md" \in DOMAIN vault THEN parseLines(vault["notes.md"], NotesFile, 0, customStages)
  ELSE <<>>

\* trail after a bulk operation: the record ends when the operation changed
\* the store or the stack
BulkTrail(out) == IF out.undoStack # undoStack \/ out.vault # vault THEN <<>> ELSE trail

BulkUpdate ==
  /\ now < MaxOps
  /\ Selection # <<>>
  /\ \E updates \in BulkInputs, fault \in Faults, faultAt \in 1..Len(Selection) :
       /\ fault = "none" => faultAt = 1
       /\ Commit("bulkUpdate", NoTask, updates, fault,
                 bulkUpdate(vault, undoStack, now, Selection, updates, fault, faultAt, west),
                 BulkTrail(bulkUpdate(vault, undoStack, now, Selection, updates, fault,
                                      faultAt, west)))

BulkDelete ==
  /\ now < MaxOps
  /\ Selection # <<>>
  /\ \E fault \in Faults \ {"create"}, faultAt \in 1..Len(Selection) :
       /\ fault = "none" => faultAt = 1
       /\ Commit("bulkDelete", NoTask, <<>>, fault,
                 bulkDelete(vault, undoStack, now, Selection, fault, faultAt),
                 BulkTrail(bulkDelete(vault, undoStack, now, Selection, fault, faultAt)))

\* the lines the user types
EditLines == {TextLine(<<W("Intro")>>)}

\* the user changes, inserts or removes a line in the editor, or deletes
\* the document
ExternalEdit ==
  /\ now < MaxOps
  /\ \E p \in DOMAIN vault :
       \/ \E i \in 1..Len(vault[p]), l \in EditLines :
            /\ vault[p][i] # l
            /\ vault' = [vault EXCEPT ![p] = [@ EXCEPT ![i] = l]]
       \/ \E l \in EditLines :
            vault' = [vault EXCEPT ![p] = <<l>> \o @]
       \/ \E i \in 1..Len(vault[p]) :
            vault' = [vault EXCEPT ![p] = StoredLines(RemoveAt(@, i))]
       \/ vault' = [q \in DOMAIN vault \ {p} |-> vault[q]]
  /\ now' = now + 1
  /\ trail' = <<>>
  /\ UNCHANGED <<parserVars, hierVars, west, faults, undoStack, held, last, depVars, cacheVars>>

NextUpdater ==
  \/ Refresh
  \/ UpdateTask
  \/ ToggleTask
  \/ UpdateTaskStage
  \/ DeleteTask
  \/ CreateTask
  \/ Undo
  \/ ExternalEdit

SpecUpdater == InitUpdater /\ [][NextUpdater]_vars

\* the caller that also works on selections of tasks
NextBulk ==
  \/ Refresh
  \/ UpdateTask
  \/ ToggleTask
  \/ UpdateTaskStage
  \/ CreateTask
  \/ BulkUpdate
  \/ BulkDelete

SpecBulk == InitUpdater /\ [][NextBulk]_vars

\* the operations that go through updateTask
UpdateOps == {"updateTask", "toggleTask", "updateTaskStage"}

\* the last operation was an update or a delete of a task whose document
\* was found and read, and the line at the task's index in that document
\* was not the task's rawLine (no line at all when the index is past the end)
StaleCall ==
  /\ last.op \in UpdateOps \cup {"deleteTask"}
  /\ last.fault # "read"
  /\ last.task.file.path \in DOMAIN last.before
  /\ \/ last.task.lineNumber >= Len(last.before[last.task.file.path])
     \/ last.before[last.task.file.path][last.task.lineNumber + 1] # last.task.rawLine

PastEndCall ==
  /\ StaleCall
  /\ last.task.lineNumber >= Len(last.before[last.task.file.path])

Rejected == ~last.result.success /\ last.writes = 0 /\ last.after = last.before

\* C1 as stated: an update or delete of a stale task, the index past the
\* end of the document included, returns success=false with the 'modified'
\* error and writes nothing: the store is what it was before the call.
C1_StaleIsModifiedError ==
  StaleCall => (Rejected /\ last.result.error = ModifiedError)

\* C1: an update or delete of a stale task returns success=false and writes
\* nothing, so the store is what it was before the call; the error is the
\* 'modified' error, except for an update whose index is past the end of
\* the document, which is refused with 'Line number exceeds file length'.
C1_StaleRejected ==
  StaleCall =>
    /\ Rejected
    /\ last.result.error =
         IF last.op \in UpdateOps /\ PastEndCall THEN "Line number exceeds file length"
         ELSE ModifiedError

\* an update of a task whose index is past the end of its document, and
\* whose document still holds lines
C1_Witness ==
  /\ PastEndCall
  /\ last.op \in UpdateOps
  /\ last.before[last.task.file.path] # <<EmptyLine>>

\* C5: createTask with an atLine greater than the line count of the
\* document, or negative, returns a failure and leaves the document as it
\* was.
C5_AtLineOutOfRangeRejected ==
  (/\ last.op = "createTask"
   /\ "atLine" \in DOMAIN last.args
   /\ NotesFile.path \in DOMAIN last.before
   /\ \/ last.args.atLine > Len(last.before[NotesFile.path])
      \/ last.args.atLine < 0)
  => (~last.result.success /\ last.after = last.before)

\* C6: an undo that follows successful updates and deletes, with no other
\* change of the store in between and no store failure, succeeds and puts
\* the store back to what it was before the most recent of them not yet
\* undone.
C6_UndoRestores ==
  (last.op = "undo" /\ last.fault = "none" /\ last.trail # <<>>)
  => (last.result.success /\ last.after = Last(last.trail))

----------------------------------------------------------------------------
(* Undo stack harness: one task toggled again and again, each time taken   *)
(* from a fresh parse, until the undo stack has met its cap; the user      *)
(* undoes only once the stack is full.                                     *)

\* pushes beyond the cap of the undo stack
ExtraPushes == 4

CapOps == maxUndoEntries + ExtraPushes

InitUndoCap ==
  /\ DepIdle
  /\ CacheIdle
  /\ ParserIdle
  /\ HierIdle
  /\ UpdaterIdle
  /\ vault = [p \in {"notes.md"} |-> <<CallLine>>]
  /\ west = FALSE
  /\ now = 0
  /\ faults = 0

CapRefresh ==
  /\ now < CapOps
  /\ \E t \in VisibleTasks : held' = t
  /\ UNCHANGED <<parserVars, hierVars, storeVars, undoStack, last, trail, depVars, cacheVars>>

CapToggle ==
  /\ now < CapOps
  /\ held \in VisibleTasks
  /\ Commit("toggleTask", held, <<>>, "none",
            toggleTask(vault, undoStack, now, held, "none", west),
            TrailAfterChange(toggleTask(vault, undoStack, now, held, "none", west)))

CapUndo ==
  /\ now < CapOps
  /\ Len(undoStack) = maxUndoEntries
  /\ Commit("undo", NoTask, <<>>, "none",
            undo(vault, undoStack, "none"),
            TrailAfterUndo(undo(vault, undoStack, "none")))

NextUndoCap == CapRefresh \/ CapToggle \/ CapUndo

SpecUndoCap == InitUndoCap /\ [][NextUndoCap]_vars

\* C7: the undo stack never holds more than maxUndoEntries entries, and
\* every successful update or delete leaves its own entry on top of the
\* entries that were there, in their order, without the oldest one when the
\* stack was full.
C7_UndoStackCapped ==
  [][/\ Len(undoStack') <= maxUndoEntries
     /\ (/\ now' # now
         /\ last'.op \in UpdateOps \cup {"deleteTask"}
         /\ last'.result.success)
        => /\ undoStack' # <<>>
           /\ Last(undoStack').timestamp = now
           /\ Front(undoStack') = IF Len(undoStack) = maxUndoEntries
                                  THEN Tail(undoStack) ELSE undoStack]_vars

\* a toggle has just pushed onto a full stack: the entry of the first
\* toggle of the run is gone
C7_Witness ==
  /\ Len(undoStack) = maxUndoEntries
  /\ undoStack[1].timestamp > 0
  /\ last.op = "toggleTask"
  /\ last.result.success

----------------------------------------------------------------------------
(* Dependency harness: the tasks of notes.md and proj/plan.md, some of     *)
(* them with a blocked-by tag, and the status of one of them               *)

\* lines of notes.md; proj/plan.md has one line fewer
DMaxLines == 2

\* references by basename and by path, to tasks that may exist and to tasks
\* that do not
DRefLists ==
  {<<>>, <<"notes:0">>, <<"notes.md:1">>, <<"proj/plan.md:0">>,
   <<"plan:7">>, <<"notes.md:9">>, <<"gone/old.md:2">>,
   <<"notes:1", "gone/old.md:2">>}

DLines ==
  {Line(<<>>, box, <<W("Task")>> \o (IF refs = <<>> THEN <<>> ELSE <<TBlockedBy(refs)>>)) :
     box \in {" ", "x"}, refs \in DRefLists}

InitDeps ==
  /\ ParserIdle
  /\ HierIdle
  /\ StoreIdle
  /\ UpdaterIdle
  /\ CacheIdle
  /\ \E d1 \in [1..DMaxLines -> DLines], d2 \in [1..(DMaxLines - 1) -> DLines] :
       dAll = parseLines(d1, NotesFile, 0, customStages)
                \o parseLines(d2, PlanFile, 0, customStages)
  /\ dTask = NoTask
  /\ dOut = NoStatus
  /\ dPc = "input"

DAsk ==
  /\ dPc = "input"
  /\ \E i \in 1..Len(dAll) : dTask' = dAll[i]
  /\ dPc' = "asked"
  /\ UNCHANGED <<dAll, dOut, parserVars, hierVars, storeVars, updaterVars, cacheVars>>

DStatus ==
  /\ dPc = "asked"
  /\ dOut' = getDependencyStatus(dTask, dAll)
  /\ dPc' = "done"
  /\ UNCHANGED <<dAll, dTask, parserVars, hierVars, storeVars, updaterVars, cacheVars>>

NextDeps == DAsk \/ DStatus

SpecDeps == InitDeps /\ [][NextDeps]_vars

\* the tasks of the universe a reference names: by their id or by
\* basename:line
Referents(ref, tasks) ==
  {u \in Range(tasks) : u.id = ref \/ u.file.basename \o ":" \o ToString(u.lineNumber) = ref}

\* C2: the status of a task says blocked exactly when one of its blockedBy
\* references names no task of the universe, or names a task of the
\* universe that is not completed.
C2_BlockedIffOpenOrUnresolved ==
  dPc = "done" =>
    (dOut.isBlocked <=>
       \E i \in 1..Len(dTask.blockedBy) :
          \/ Referents(dTask.blockedBy[i], dAll) = {}
          \/ \E u \in Referents(dTask.blockedBy[i], dAll) : ~u.completed)

----------------------------------------------------------------------------
(* Cache harness: the plugin after initialize() with its file watchers     *)
(* registered; the user modifies, creates and deletes documents, the       *)
(* debounced refresh and the refresh command start passes of refreshAll,   *)
(* and every pending read is answered at some later step.                  *)

MaxEvents == 1
MaxPasses == 1

SoloDoc == <<Line(<<>>, " ", <<W("Call")>>)>>
NestedDoc == <<Line(<<>>, "x", <<W("Ship")>>), Line(<<" ", " ">>, " ", <<W("Report")>>)>>
CacheDocs == {SoloDoc, NestedDoc}

InitialVaults ==
  { [p \in {"notes.md", "proj/plan.md"} |-> IF p = "notes.md" THEN NestedDoc ELSE SoloDoc],
    [p \in Paths |-> IF p = "notes.md" THEN NestedDoc ELSE SoloDoc] }

\* vault.getMarkdownFiles(): the existing documents, in the order of their
\* paths or in the reverse of it
RECURSIVE Ascending(_)
Ascending(S) ==
  IF S = {} THEN <<>>
  ELSE LET first == CHOOSE p \in S : \A q \in S : PathRank(p) <= PathRank(q)
       IN <<first>> \o Ascending(S \ {first})

Reverse(s) == [i \in 1..Len(s) |-> s[Len(s) + 1 - i]]

Orders(S) == {Ascending(S), Reverse(Ascending(S))}

\* the cache a pass of refreshAll leaves when nothing fails and nothing
\* interferes
CompleteCache(v, mt) ==
  [p \in {q \in DOMAIN v : shouldParseFile(FileAt(q))} |->
     CacheEntry(parseTasksFromFile(v, FileAt(p), "none"), mt[p])]

\* the plugin after initialize() on the documents of the store
Initialized ==
  /\ ParserIdle /\ HierIdle /\ UpdaterIdle /\ DepIdle
  /\ west = FALSE
  /\ now = 0
  /\ faults = 0
  /\ mtime = [p \in Paths |-> IF p \in DOMAIN vault THEN 1 ELSE 0]
  /\ cache = CompleteCache(vault, mtime)
  /\ allTasks = rebuildAllTasks(cache)
  /\ stats = [totalFiles |-> Cardinality(DOMAIN vault),
              cachedFiles |-> Cardinality(DOMAIN cache),
              totalTasks |-> Len(allTasks),
              hits |-> 0,
              misses |-> Cardinality(DOMAIN cache),
              lastRefresh |-> 0]
  /\ passes = {}
  /\ refreshing = [p \in Paths |-> 0]
  /\ refreshDue = FALSE
  /\ passCount = 0
  /\ lastPass = NoPass
  /\ cStep = NoOperation

InitCache ==
  /\ vault \in InitialVaults
  /\ Initialized

\* history: every pass that is under way has seen another handler run
Disturbed(ps) == {[p EXCEPT !.disturbed = TRUE] : p \in ps}

CacheStep(op, path, fault) == [op |-> op, path |-> path, fault |-> fault]

\* refreshAll from files[i] on: up to its next read, or to its end with
\* rebuildAllTasks, cachedFiles and lastRefresh
Continue(pass, others, c, st, i) ==
  LET adv == Advance(pass.files, i, c, st, mtime) IN
  /\ cache' = c
  /\ IF adv.at = 0
     THEN /\ allTasks' = rebuildAllTasks(c)
          /\ stats' = [StatsAfterRebuild(adv.stats, c) EXCEPT !.lastRefresh = now]
          /\ passes' = others
          /\ lastPass' = [id |-> pass.id, failed |-> pass.failed, disturbed |-> pass.disturbed]
     ELSE /\ allTasks' = allTasks
          /\ stats' = adv.stats
          /\ passes' = others \cup {[pass EXCEPT !.at = adv.at]}
          /\ lastPass' = lastPass

\* refreshAll up to its first read: cache.clear(), the list of files,
\* stats.totalFiles, then the loop
BeginPass(order) ==
  /\ passCount' = passCount + 1
  /\ Continue([id |-> passCount + 1, files |-> order, at |-> 0, failed |-> {}, disturbed |-> FALSE],
              Disturbed(passes), <<>>, [stats EXCEPT !.totalFiles = Len(order)], 1)
  /\ cStep' = CacheStep("refreshAll", NULL, "none")
  /\ UNCHANGED <<parserVars, hierVars, storeVars, updaterVars, depVars, mtime, refreshing>>

\* a pass of the harnesses that bound the number of passes
StartPass(order) ==
  /\ passCount < MaxPasses
  /\ BeginPass(order)

\* the debounced refresh fires, 300 ms after the last watcher event
DebounceFires ==
  /\ refreshDue
  /\ refreshDue' = FALSE
  /\ \E order \in Orders(DOMAIN vault) : StartPass(order)

\* the refresh command and every other caller of plugin.refreshTasks()
RefreshCommand ==
  /\ refreshDue' = refreshDue
  /\ \E order \in Orders(DOMAIN vault) : StartPass(order)

\* the store answers the read a pass of refreshAll waits for
PassResume ==
  \E pass \in passes, fault \in {"none", "read"} :
    LET path == pass.files[pass.at]
        failed == path \notin DOMAIN vault \/ fault = "read"
    IN /\ fault = "none" \/ faults < MaxFaults
       /\ faults' = faults + (IF fault = "none" THEN 0 ELSE 1)
       /\ Continue([pass EXCEPT !.failed = IF failed THEN @ \cup {path} ELSE @],
                   Disturbed(passes \ {pass}),
                   MapSet(cache, path,
                          CacheEntry(parseTasksFromFile(vault, FileAt(path), fault), mtime[path])),
                   stats,
                   NextIndex(pass.at, Len(pass.files), failed))
       /\ cStep' = CacheStep("refreshAll", path, fault)
       /\ UNCHANGED <<parserVars, hierVars, vault, west, now, updaterVars, depVars,
                      mtime, refreshing, refreshDue, passCount>>

\* the 'modify' and 'create' watchers: refreshFile(file) up to its read,
\* not awaited, and the debounced refresh armed
OnChanged(op, path) ==
  /\ mtime' = [mtime EXCEPT ![path] = @ + 1]
  /\ now' = now + 1
  /\ IF shouldParseFile(FileAt(path))
     THEN /\ refreshing' = [refreshing EXCEPT ![path] = @ + 1]
          /\ UNCHANGED <<cache, allTasks, stats>>
     ELSE /\ cache' = MapDelete(cache, path)
          /\ allTasks' = rebuildAllTasks(MapDelete(cache, path))
          /\ stats' = [stats EXCEPT !.totalTasks = Len(rebuildAllTasks(MapDelete(cache, path)))]
          /\ refreshing' = refreshing
  /\ passes' = Disturbed(passes)
  /\ refreshDue' = TRUE
  /\ cStep' = CacheStep(op, path, "none")
  /\ UNCHANGED <<parserVars, hierVars, west, faults, updaterVars, depVars, passCount, lastPass>>

\* the user saves a changed document
ModifyDoc ==
  /\ now < MaxEvents
  /\ \E path \in DOMAIN vault, doc \in CacheDocs :
       /\ doc # vault[path]
       /\ vault' = [vault EXCEPT ![path] = doc]
       /\ OnChanged("modify", path)

\* the user creates a document
CreateDoc ==
  /\ now < MaxEvents
  /\ \E path \in Paths \ DOMAIN vault, doc \in CacheDocs :
       /\ vault' = MapSet(vault, path, doc)
       /\ OnChanged("create", path)

\* the user deletes a document: the 'delete' watcher runs removeFile and
\* arms the debounced refresh
DeleteDoc ==
  /\ now < MaxEvents
  /\ \E path \in DOMAIN vault :
       /\ vault' = MapDelete(vault, path)
       /\ now' = now + 1
       /\ cache' = MapDelete(cache, path)
       /\ allTasks' = rebuildAllTasks(MapDelete(cache, path))
       /\ stats' = StatsAfterRebuild(stats, MapDelete(cache, path))
       /\ passes' = Disturbed(passes)
       /\ refreshDue' = TRUE
       /\ cStep' = CacheStep("delete", path, "none")
       /\ UNCHANGED <<parserVars, hierVars, west, faults, updaterVars, depVars,
                      mtime, refreshing, passCount, lastPass>>

\* the store answers the read a refreshFile waits for
RefreshFileResume ==
  \E path \in Paths, fault \in {"none", "read"} :
    /\ refreshing[path] > 0
    /\ fault = "none" \/ faults < MaxFaults
    /\ faults' = faults + (IF fault = "none" THEN 0 ELSE 1)
    /\ refreshing' = [refreshing EXCEPT ![path] = @ - 1]
    /\ cache' = MapSet(cache, path,
                       CacheEntry(parseTasksFromFile(vault, FileAt(path), fault), mtime[path]))
    /\ allTasks' = rebuildAllTasks(cache')
    /\ stats' = StatsAfterRebuild(stats, cache')
    /\ passes' = Disturbed(passes)
    /\ cStep' = CacheStep("refreshFile", path, fault)
    /\ UNCHANGED <<parserVars, hierVars, vault, west, now, updaterVars, depVars,
                   mtime, refreshDue, passCount, lastPass>>

\* a pass or a refreshFile that holds the file object of a renamed document
\* sees its new path
Renamed(path, oldPath, newPath) == IF path = oldPath THEN newPath ELSE path

\* the user renames or moves a document: the 'rename' watcher runs
\* renameFile and arms the debounced refresh
RenameDoc ==
  /\ now < MaxEvents
  /\ \E oldPath \in DOMAIN vault, newPath \in Paths \ DOMAIN vault :
       /\ vault' = MapSet(MapDelete(vault, oldPath), newPath, vault[oldPath])
       /\ mtime' = [mtime EXCEPT ![newPath] = mtime[oldPath]]
       /\ cache' = renameFile(cache, oldPath, newPath)
       /\ refreshing' = [refreshing EXCEPT ![newPath] = @ + refreshing[oldPath],
                                           ![oldPath] = 0]
       /\ passes' = {[p EXCEPT !.disturbed = TRUE,
                               !.files = [i \in DOMAIN @ |-> Renamed(@[i], oldPath, newPath)]]
                       : p \in passes}
       /\ cStep' = [op |-> "rename", path |-> newPath, fault |-> "none", oldPath |-> oldPath]
  /\ now' = now + 1
  /\ refreshDue' = TRUE
  /\ UNCHANGED <<parserVars, hierVars, west, faults, updaterVars, depVars,
                 allTasks, stats, passCount, lastPass>>

NextCache ==
  \/ ModifyDoc
  \/ CreateDoc
  \/ DeleteDoc
  \/ RefreshFileResume
  \/ DebounceFires
  \/ RefreshCommand
  \/ PassResume

SpecCache == InitCache /\ [][NextCache]_vars

\* the plugin with all its watchers, on a store that has room for a
\* renamed document
WatchVaults == InitialVaults \cup {[p \in {"notes.md"} |-> NestedDoc]}

InitWatch ==
  /\ vault \in WatchVaults
  /\ Initialized

NextWatch ==
  \/ ModifyDoc
  \/ CreateDoc
  \/ DeleteDoc
  \/ RenameDoc
  \/ RefreshFileResume
  \/ DebounceFires
  \/ RefreshCommand
  \/ PassResume

SpecWatch == InitWatch /\ [][NextWatch]_vars

\* the tasks of a list, each by its id and its line
TaskKeys(tasks) == {<<tasks[i].id, tasks[i].rawLine>> : i \in 1..Len(tasks)}

\* the tasks a parse of the document at a path gives
DocKeys(v, path) == TaskKeys(parseTasksFromFile(v, FileAt(path), "none"))

RunningPasses(ps) == {p.id : p \in ps}

\* C3: a pass of refreshAll leaves alone every eligible document whose
\* entry carries the document's current modification time: the entry stays
\* and the pass does not read the document.
C3_UnchangedNotReparsed ==
  [][ passCount' # passCount =>
        \A path \in DOMAIN cache :
          ( /\ path \in DOMAIN vault
            /\ shouldParseFile(FileAt(path))
            /\ cache[path].lastModified = mtime[path] )
          => /\ path \in DOMAIN cache'
             /\ cache'[path] = cache[path]
             /\ \A pass \in passes' :
                  pass.id = passCount' => pass.files[pass.at] # path ]_vars

C10_AggregateNeverTorn ==
  [][ ( /\ RunningPasses(passes) \cap RunningPasses(passes') # {}
        /\ allTasks' # allTasks
        /\ cStep'.fault = "none" ) =>
        \A path \in DOMAIN vault \cap DOMAIN vault' :
          ( /\ shouldParseFile(FileAt(path))
            /\ path # cStep'.path
            /\ vault'[path] = vault[path]
            /\ DocKeys(vault, path) \subseteq TaskKeys(ForestTasks(allTasks)) )
          => DocKeys(vault, path) \subseteq TaskKeys(ForestTasks(allTasks')) ]_vars

----------------------------------------------------------------------------
(* Unblock harness: a task X with one blocked-by reference to an open task *)
(* B.  A view resolves X against getAllTasks(), the user toggles B, the    *)
(* cache runs refreshAll with nothing in between, and the view resolves X  *)
(* again.                                                                  *)

PlanLine == Line(<<>>, " ", <<W("Plan")>>)

\* B, the line 1 of notes.md: at top level or indented under line 0
BlockerLines ==
  {Line(indent, " ", <<W("Fix")>> \o repeat) :
     indent \in {<<>>, <<" ", " ">>}, repeat \in {<<>>, <<TRepeat("daily")>>}}

\* X, with its reference to B by basename or by path
BlockedLines ==
  {Line(<<>>, " ", <<W("Ship"), TBlockedBy(<<ref>>)>>) : ref \in {"notes:1", "notes.md:1"}}

\* X is the last line of notes.md or the only line of proj/plan.md
UnblockVaults ==
  {[p \in {"notes.md"} |-> <<PlanLine, b, x>>] : b \in BlockerLines, x \in BlockedLines}
    \cup {[p \in {"notes.md", "proj/plan.md"} |-> IF p = "notes.md" THEN <<PlanLine, b>> ELSE <<x>>] :
            b \in BlockerLines, x \in BlockedLines}

\* a pass of refreshAll from files[i] on that no handler interleaves with
\* and no read of which fails: every read is answered at once
RECURSIVE RunPass(_, _, _, _, _, _)
RunPass(files, i, c, st, v, mt) ==
  IF Advance(files, i, c, st, mt).at = 0
  THEN [cache |-> c, stats |-> Advance(files, i, c, st, mt).stats]
  ELSE RunPass(files,
               NextIndex(Advance(files, i, c, st, mt).at, Len(files), FALSE),
               MapSet(c, files[Advance(files, i, c, st, mt).at],
                      CacheEntry(parseTasksFromFile(v, FileAt(files[Advance(files, i, c, st, mt).at]), "none"),
                                 mt[files[Advance(files, i, c, st, mt).at]])),
               Advance(files, i, c, st, mt).stats, v, mt)

\* the task of a forest a blocked-by reference names, by basename:line or
\* by path:line
NamedBy(ref, roots) ==
  {t \in Range(ForestTasks(roots)) : ShortKey(t) = ref \/ t.id = ref}

InitUnblock ==
  /\ ParserIdle /\ HierIdle /\ UpdaterIdle
  /\ vault \in UnblockVaults
  /\ west \in BOOLEAN
  /\ now = 0
  /\ faults = 0
  /\ mtime = [p \in Paths |-> IF p \in DOMAIN vault THEN 1 ELSE 0]
  /\ cache = CompleteCache(vault, mtime)
  /\ allTasks = rebuildAllTasks(cache)
  /\ stats = [totalFiles |-> Cardinality(DOMAIN vault),
              cachedFiles |-> Cardinality(DOMAIN cache),
              totalTasks |-> Len(allTasks),
              hits |-> 0,
              misses |-> Cardinality(DOMAIN cache),
              lastRefresh |-> 0]
  /\ passes = {}
  /\ refreshing = [p \in Paths |-> 0]
  /\ refreshDue = FALSE
  /\ passCount = 0
  /\ lastPass = NoPass
  /\ cStep = NoOperation
  /\ dAll = <<>>
  /\ dTask = NoTask
  /\ dOut = NoStatus
  /\ dPc = "input"

\* the view takes X from the rendered tree and resolves it against
\* getAllTasks(); the user's hand is on B
UResolveFirst ==
  /\ dPc = "input"
  /\ \E x \in Range(ForestTasks(allTasks)) :
       /\ Len(x.blockedBy) = 1
       /\ \E b \in NamedBy(x.blockedBy[1], allTasks) :
            /\ ~b.completed
            /\ held' = b
       /\ dTask' = x
       /\ dOut' = getDependencyStatus(x, allTasks)
  /\ dAll' = allTasks
  /\ dPc' = "asked"
  /\ UNCHANGED <<parserVars, hierVars, storeVars, undoStack, last, trail, cacheVars>>

\* the user toggles B
UToggle ==
  /\ dPc = "asked"
  /\ \E fault \in Faults :
       /\ fault = "none" \/ faults < MaxFaults
       /\ faults' = faults + (IF fault = "none" THEN 0 ELSE 1)
       /\ vault' = toggleTask(vault, undoStack, now, held, fault, west).vault
       /\ undoStack' = toggleTask(vault, undoStack, now, held, fault, west).undoStack
       /\ last' = [op |-> "toggleTask", task |-> held, args |-> <<>>, fault |-> fault,
                   before |-> vault, after |-> vault',
                   result |-> toggleTask(vault, undoStack, now, held, fault, west).result,
                   writes |-> toggleTask(vault, undoStack, now, held, fault, west).writes,
                   trail |-> trail]
  /\ mtime' = [p \in Paths |-> IF p \in DOMAIN vault /\ vault'[p] # vault[p] THEN mtime[p] + 1
                               ELSE mtime[p]]
  /\ now' = now + 1
  /\ dPc' = "toggled"
  /\ UNCHANGED <<parserVars, hierVars, west, held, trail, dAll, dTask, dOut,
                 cache, allTasks, stats, passes, refreshing, refreshDue, passCount,
                 lastPass, cStep>>

\* refreshAll, run to its end
URefreshAll ==
  /\ dPc = "toggled"
  /\ \E order \in Orders(DOMAIN vault) :
       /\ cache' = RunPass(order, 1, <<>>, [stats EXCEPT !.totalFiles = Len(order)], vault, mtime).cache
       /\ allTasks' = rebuildAllTasks(cache')
       /\ stats' = [StatsAfterRebuild(
                      RunPass(order, 1, <<>>, [stats EXCEPT !.totalFiles = Len(order)], vault, mtime).stats,
                      cache')
                    EXCEPT !.lastRefresh = now]
  /\ passCount' = passCount + 1
  /\ lastPass' = [id |-> passCount + 1, failed |-> {}, disturbed |-> FALSE]
  /\ cStep' = CacheStep("refreshAll", NULL, "none")
  /\ dPc' = "refreshed"
  /\ UNCHANGED <<parserVars, hierVars, storeVars, updaterVars, dAll, dTask, dOut,
                 mtime, passes, refreshing, refreshDue>>

\* the view resolves X, as the refreshed tree shows it, against the
\* refreshed getAllTasks()
UResolveAgain ==
  /\ dPc = "refreshed"
  /\ \E x \in Range(ForestTasks(allTasks)) :
       /\ x.id = dTask.id
       /\ dTask' = x
       /\ dOut' = getDependencyStatus(x, allTasks)
  /\ dAll' = allTasks
  /\ dPc' = "after"
  /\ UNCHANGED <<parserVars, hierVars, storeVars, updaterVars, cacheVars>>

NextUnblock ==
  \/ UResolveFirst
  \/ UToggle
  \/ URefreshAll
  \/ UResolveAgain

SpecUnblock == InitUnblock /\ [][NextUnblock]_vars

\* C11: X, whose only blocked-by reference names the open task B, is
\* blocked; once B was toggled complete and the cache refreshed, X resolved
\* against the refreshed getAllTasks() is not blocked, wherever B sits in
\* its document.
C11_UnblockedAfterToggle ==
  /\ dPc = "asked" => dOut.isBlocked
  /\ (dPc = "after" /\ last.result.success) => ~dOut.isBlocked

----------------------------------------------------------------------------
(* Graph harness: a universe of top-level tasks of notes.md and            *)
(* proj/plan.md with blocks and blocked-by tags, and one question about it *)

\* tasks of the universe: all but one in notes.md, one in proj/plan.md
GMaxTasks == 3

GBlocksLists == {<<>>, <<"notes:0">>, <<"notes:1", "notes.md:1">>, <<"plan:0">>, <<"ghost:9">>}
GBlockedByLists == {<<>>, <<"notes:0">>, <<"proj/plan.md:0">>}

GLines ==
  {Line(<<>>, " ", <<W("Task")>>
                     \o (IF blocks = <<>> THEN <<>> ELSE <<TBlocks(blocks)>>)
                     \o (IF blockedBy = <<>> THEN <<>> ELSE <<TBlockedBy(blockedBy)>>)) :
     blocks \in GBlocksLists, blockedBy \in GBlockedByLists}

NoAnswer == [status |-> NoStatus]

InitGraph ==
  /\ ParserIdle /\ HierIdle /\ StoreIdle /\ UpdaterIdle /\ CacheIdle
  /\ \E d1 \in [1..(GMaxTasks - 1) -> GLines], d2 \in [1..1 -> GLines] :
       dAll = parseLines(d1, NotesFile, 0, customStages)
                \o parseLines(d2, PlanFile, 0, customStages)
  /\ dTask = NoTask
  /\ dOut = NoAnswer
  /\ dPc = "input"

\* getDependencyStatus(task, allTasks) for a task of the universe
GStatus ==
  /\ dPc = "input"
  /\ \E i \in 1..Len(dAll) :
       /\ dTask' = dAll[i]
       /\ dOut' = [status |-> getDependencyStatus(dAll[i], dAll)]
  /\ dPc' = "status"
  /\ UNCHANGED <<dAll, parserVars, hierVars, storeVars, updaterVars, cacheVars>>

\* detectCircularDependency(task, allTasks) for a task of the universe
GCycle ==
  /\ dPc = "input"
  /\ \E i \in 1..Len(dAll) :
       /\ dTask' = dAll[i]
       /\ dOut' = [cycle |-> detectCircularDependency(dAll[i], dAll, {}, <<>>,
                                                      buildShortIdMap(dAll), TaskMap(dAll))]
  /\ dPc' = "cycle"
  /\ UNCHANGED <<dAll, parserVars, hierVars, storeVars, updaterVars, cacheVars>>

\* the lists handed to sortByDependencyOrder: the universe, the universe
\* backwards, and the universe without one of its tasks
SortInputs(tasks) ==
  {tasks, Reverse(tasks)} \cup {RemoveAt(tasks, i) : i \in 1..Len(tasks)}

\* sortByDependencyOrder(tasks, allTasks)
GSort ==
  /\ dPc = "input"
  /\ \E in \in SortInputs(dAll) :
       dOut' = [input |-> in, sorted |-> sortByDependencyOrder(in, dAll)]
  /\ dPc' = "sort"
  /\ UNCHANGED <<dAll, dTask, parserVars, hierVars, storeVars, updaterVars, cacheVars>>

NextGraph ==
  \/ GStatus
  \/ GCycle
  \/ GSort

SpecGraph == InitGraph /\ [][NextGraph]_vars

\* the id a reference stands for in a universe: the id of the task it
\* names, or the reference itself when it names none
Resolution(ref, tasks) ==
  IF Referents(ref, tasks) = {} THEN ref
  ELSE (CHOOSE u \in Referents(ref, tasks) : TRUE).id

\* the other tasks of the universe with a blockedBy reference that names
\* the task
ImpliedBy(task, tasks) ==
  {u.id : u \in {v \in Range(tasks) :
                   /\ v.id # task.id
                   /\ \E i \in 1..Len(v.blockedBy) : task \in Referents(v.blockedBy[i], tasks)}}

Occurrences(x, s) == Cardinality({i \in 1..Len(s) : s[i] = x})

\* C12: blocksTasks holds the resolution of every explicit blocks
\* reference of the task and the id of every other task one of whose
\* blockedBy references resolves to the task, and nothing else; an implied
\* task is listed at most once; blocksCount is the length of the list.
C12_BlocksTasks ==
  dPc = "status" =>
    /\ Range(dOut.status.blocksTasks)
         = {Resolution(dTask.blocks[i], dAll) : i \in 1..Len(dTask.blocks)}
             \cup ImpliedBy(dTask, dAll)
    /\ \A id \in ImpliedBy(dTask, dAll) : Occurrences(id, dOut.status.blocksTasks) <= 1
    /\ dOut.status.blocksCount = Len(dOut.status.blocksTasks)

\* the graph of the claim: u -> v when a blocks reference of u names v or a
\* blockedBy reference of v names u
Edge(u, v, tasks) ==
  \/ \E i \in 1..Len(u.blocks) : v \in Referents(u.blocks[i], tasks)
  \/ \E i \in 1..Len(v.blockedBy) : u \in Referents(v.blockedBy[i], tasks)

\* the tasks reached from a set of tasks by zero or more edges
RECURSIVE ReachedFrom(_, _)
ReachedFrom(S, tasks) ==
  IF \A u \in S : \A v \in Range(tasks) : Edge(u, v, tasks) => v \in S THEN S
  ELSE ReachedFrom(S \cup {v \in Range(tasks) : \E u \in S : Edge(u, v, tasks)}, tasks)

OnCycle(u, tasks) ==
  u \in ReachedFrom({v \in Range(tasks) : Edge(u, v, tasks)}, tasks)

\* C13: detectCircularDependency returns a path exactly when a cycle of
\* the graph is reachable from the task, self-references included; the
\* path starts and ends with the same id and each consecutive pair of it
\* is an edge.
C13_CycleDetected ==
  dPc = "cycle" =>
    /\ dOut.cycle # <<>> <=> \E u \in ReachedFrom({dTask}, dAll) : OnCycle(u, dAll)
    /\ dOut.cycle # <<>> =>
         /\ Len(dOut.cycle) >= 2
         /\ dOut.cycle[1] = dOut.cycle[Len(dOut.cycle)]
         /\ \A i \in 1..(Len(dOut.cycle) - 1) :
              \E u, v \in Range(dAll) :
                u.id = dOut.cycle[i] /\ v.id = dOut.cycle[i + 1] /\ Edge(u, v, dAll)


\* u blocks v by one of its blocks references, resolved in the universe
Blocks(u, v, tasks) == \E i \in 1..Len(u.blocks) : v \in Referents(u.blocks[i], tasks)

\* the tasks of a list reached from a set of them by zero or more blocks
\* edges between tasks of the list
RECURSIVE BlockedFrom(_, _, _)
BlockedFrom(S, in, tasks) ==
  IF \A u \in S : \A v \in Range(in) : Blocks(u, v, tasks) => v \in S THEN S
  ELSE BlockedFrom(S \cup {v \in Range(in) : \E u \in S : Blocks(u, v, tasks)}, in, tasks)

Acyclic(in, tasks) ==
  \A u \in Range(in) :
    u \notin BlockedFrom({v \in Range(in) : Blocks(u, v, tasks)}, in, tasks)

IsPermutation(s, t) ==
  /\ Len(s) = Len(t)
  /\ \A x \in Range(s) \cup Range(t) : Occurrences(x, s) = Occurrences(x, t)

\* C14 as stated: for an input whose blocks edges are acyclic the result
\* is a permutation of the input in which a task that blocks another task
\* of the input comes after that task.
C14_BlockersLast ==
  (dPc = "sort" /\ Acyclic(dOut.input, dAll)) =>
    /\ IsPermutation(dOut.sorted, dOut.input)
    /\ \A i, j \in 1..Len(dOut.sorted) :
         Blocks(dOut.sorted[i], dOut.sorted[j], dAll) => j < i

\* C14: for an input whose blocks edges are acyclic the result is a
\* permutation of the input in which a task that blocks another task of
\* the input comes before that task.
C14_BlockersFirst ==
  (dPc = "sort" /\ Acyclic(dOut.input, dAll)) =>
    /\ IsPermutation(dOut.sorted, dOut.input)
    /\ \A i, j \in 1..Len(dOut.sorted) :
         Blocks(dOut.sorted[i], dOut.sorted[j], dAll) => i < j

\* an acyclic input, handed over with a blocked task ahead of the task
\* that blocks it, has been sorted
C14_Witness ==
  /\ dPc = "sort"
  /\ Acyclic(dOut.input, dAll)
  /\ \E i, j \in 1..Len(dOut.input) :
       i < j /\ Blocks(dOut.input[j], dOut.input[i], dAll)

----------------------------------------------------------------------------
(* Claims on the lines the updater writes *)

\* the line the last operation left at the index of its task, as the
\* parser reads it
WrittenTask ==
  parseTaskLine(last.after[last.task.file.path][last.task.lineNumber + 1],
                last.task.file, last.task.lineNumber, customStages)

\* C15: a successful toggleTask of an incomplete task writes a line marked
\* complete with stage Completed; of a completed task, an incomplete line
\* without a stage if the stage was Completed and with the task's stage
\* otherwise; text, owner, due date, project, priority and tags of the
\* written line are the task's.
C15_ToggleWrites ==
  (last.op = "toggleTask" /\ last.result.success) =>
    /\ WrittenTask # NoTask
    /\ WrittenTask.completed = ~last.task.completed
    /\ WrittenTask.stage = (IF ~last.task.completed THEN "Completed"
                            ELSE IF last.task.stage = "Completed" THEN NULL
                            ELSE last.task.stage)
    /\ WrittenTask.text = last.task.text
    /\ WrittenTask.owner = last.task.owner
    /\ WrittenTask.dueDate = last.task.dueDate
    /\ WrittenTask.project = last.task.project
    /\ WrittenTask.priority = last.task.priority
    /\ WrittenTask.tags = last.task.tags

\* the lines the last operation left in the store that were not there
\* before it
WrittenLines ==
  UNION {Range(last.after[p]) \ (IF p \in DOMAIN last.before THEN Range(last.before[p]) ELSE {})
           : p \in DOMAIN last.after}

WritingOps == {"toggleTask", "updateTask", "updateTaskStage", "bulkUpdate", "createTask"}

\* C16: a task parsed from a line written by toggleTask, updateTask,
\* updateTaskStage, bulkUpdate or createTask is, if completed, without a
\* stage or in stage Completed.
C16_CompletedStage ==
  last.op \in WritingOps =>
    \A line \in WrittenLines :
      LET task == parseTaskLine(line, NotesFile, 0, customStages)
      IN (task # NoTask /\ task.completed) => task.stage \in {NULL, "Completed"}

\* the updates the last operation handed to updateTask
LastUpdates ==
  CASE last.op = "toggleTask" -> ToggleUpdates(last.task)
    [] last.op = "updateTaskStage" -> StageUpdates(last.task, last.args.stage)
    [] OTHER -> last.args

\* the last operation was a successful update that took a recurring task
\* from incomplete to complete
CompletedRecurring ==
  /\ last.op \in UpdateOps
  /\ last.result.success
  /\ ~last.task.completed
  /\ Upd(LastUpdates, "completed", FALSE)
  /\ last.task.recurrence # NoRecurrence

\* the rule of the recurrence applied to the calendar day of a due date,
\* or to today without one
RollForward(dueDate, recurrence) ==
  NextDate(IF Truthy(dueDate) THEN DateFromISO(dueDate, FALSE) ELSE getToday,
           IF recurrence.interval = -1 THEN 1 ELSE recurrence.interval, recurrence)

DocBefore == last.before[last.task.file.path]
DocAfter == last.after[last.task.file.path]
AppendedTask == parseTaskLine(Last(DocAfter), last.task.file, Len(DocAfter) - 1, customStages)

\* C17: a successful update that takes a recurring task from incomplete to
\* complete leaves the document with the updated line and exactly one more
\* line at its end: an incomplete task, due on the roll-forward of the
\* task's due date (of today without one), with the task's text, owner,
\* project, priority and tags.  Any other successful update adds no line.
C17_NextOccurrence ==
  (last.op \in UpdateOps /\ last.result.success) =>
    IF CompletedRecurring
    THEN /\ Len(DocAfter) = Len(DocBefore) + 1
         /\ SubSeq(DocAfter, 1, Len(DocBefore))
              = SetAt(DocBefore, last.task.lineNumber, buildUpdatedLine(last.task, LastUpdates))
         /\ AppendedTask # NoTask
         /\ ~AppendedTask.completed
         /\ AppendedTask.dueDate = RollForward(last.task.dueDate, last.task.recurrence)
         /\ AppendedTask.text = last.task.text
         /\ AppendedTask.owner = last.task.owner
         /\ AppendedTask.project = last.task.project
         /\ AppendedTask.priority = last.task.priority
         /\ AppendedTask.tags = last.task.tags
    ELSE Len(DocAfter) = Len(DocBefore)

\* the operations of the updater that return a TaskUpdateResult
SingleOps == UpdateOps \cup {"createTask", "deleteTask", "undo"}

\* the store failed in a call the last operation made: a failure in the
\* createTask of the next occurrence happens only when the update got that
\* far and createTask got as far as the store
StoreFailed ==
  /\ last.op \in SingleOps
  /\ \/ last.fault \in {"read", "write"}
     \/ /\ last.fault = "create"
        /\ last.op \in UpdateOps
        /\ last.writes = 1
        /\ ~last.task.completed
        /\ Upd(LastUpdates, "completed", FALSE)
        /\ last.task.recurrence # NoRecurrence
        /\ calculateNextDueDate(last.task.dueDate, last.task.recurrence, west) # NULL
        /\ CreateValidation(last.task.text,
                            NextOccurrenceOptions(last.task,
                              calculateNextDueDate(last.task.dueDate, last.task.recurrence,
                                                   west))) = ""

\* C19: an operation in which a lookup, read or write of the store failed
\* returns success = false with a reason.
C19_FailureReported ==
  StoreFailed => (~last.result.success /\ Truthy(last.result.error))

----------------------------------------------------------------------------
(* Next due date harness: calculateNextDueDate on one due date and one     *)
(* rule, in a local time zone east or west of UTC.                         *)

\* the due dates of the inputs: this many days from 2025-03-01 on
DueDays == 7

InputDueDates == {NULL} \cup {formatDateToISO(NewDate(2025, 2, d)) : d \in 1..DueDays}

ListedDays == {<<1, 3, 5>>, <<0>>, <<5, 1>>, <<0, 6>>, <<3, 3>>, <<1, 2, 3, 4, 5>>}

InputRules ==
  {Recurrence("weekly", n, days, "") : n \in {-1, 1, 2}, days \in ListedDays}
    \cup {Recurrence("weekly", 2, <<>>, "every 2 weeks"), Recurrence("daily", -1, <<>>, "daily")}

InitNextDue ==
  /\ ParserIdle /\ HierIdle /\ UpdaterIdle /\ CacheIdle
  /\ vault = <<>>
  /\ west \in BOOLEAN
  /\ now = 0
  /\ faults = 0
  /\ dAll = <<>>
  /\ \E due \in InputDueDates, rule \in InputRules :
       dTask = [dueDate |-> due, recurrence |-> rule]
  /\ dOut = NoAnswer
  /\ dPc = "input"

CalculateNextDueDate ==
  /\ dPc = "input"
  /\ dOut' = [next |-> calculateNextDueDate(dTask.dueDate, dTask.recurrence, west)]
  /\ dPc' = "next"
  /\ UNCHANGED <<dAll, dTask, parserVars, hierVars, storeVars, updaterVars, cacheVars>>

NextNextDue ==
  \/ CalculateNextDueDate

SpecNextDue == InitNextDue /\ [][NextNextDue]_vars

\* the base date of the calculation
BaseDate == IF Truthy(dTask.dueDate) THEN DateFromISO(dTask.dueDate, west) ELSE getToday

ListedRule == dTask.recurrence.type = "weekly" /\ Len(dTask.recurrence.daysOfWeek) > 0

----------------------------------------------------------------------------
(* Document parse harness: refreshFile on one document, with the settings  *)
(* as they were loaded.                                                    *)

\* lines of the document
PMaxLines == 3

PLines ==
  {TextLine(<<W("Notes")>>),
   Line(<<>>, " ", <<W("Call")>>),
   Line(<<>>, " ", <<TMeta(<<"Ann">>), W("Water")>>),
   Line(<<>>, "x", <<W("Buy")>>)}

\* settings.customStages as loaded: the default list, or a value that is
\* no list
LoadedStages == {[list |-> customStages, iterable |-> b] : b \in BOOLEAN}

InitParseDoc ==
  /\ ParserIdle /\ HierIdle /\ UpdaterIdle /\ CacheIdle
  /\ \E doc \in [1..PMaxLines -> PLines] : vault = [p \in {"notes.md"} |-> doc]
  /\ west = FALSE
  /\ now = 0
  /\ faults = 0
  /\ dAll = <<>>
  /\ \E c \in LoadedStages : dTask = [customStages |-> c]
  /\ dOut = NoAnswer
  /\ dPc = "input"

\* refreshFile(notes.md)
RefreshFile ==
  /\ dPc = "input"
  /\ dOut' = [tasks |-> parseLinesCaught(vault["notes.md"], NotesFile, 0,
                                         dTask.customStages.list,
                                         dTask.customStages.iterable)]
  /\ cache' = MapSet(cache, "notes.md", CacheEntry(dOut'.tasks, 1))
  /\ allTasks' = rebuildAllTasks(cache')
  /\ stats' = StatsAfterRebuild(stats, cache')
  /\ dPc' = "parsed"
  /\ UNCHANGED <<dAll, dTask, parserVars, hierVars, storeVars, updaterVars,
                 mtime, passes, refreshing, refreshDue, passCount, lastPass, cStep>>

NextParseDoc ==
  \/ RefreshFile

SpecParseDoc == InitParseDoc /\ [][NextParseDoc]_vars

\* the parse of line i (0-based) of the document fails
FailsAt(i) == Throws(vault["notes.md"][i + 1], dTask.customStages.iterable)

\* C20: after a document is parsed, the task of every line whose own parse
\* did not fail is in the returned list and in the cache entry of the
\* document, whether the line is before or after a line that failed.
C20_OtherLinesKept ==
  dPc = "parsed" =>
    \A i \in 0..(Len(vault["notes.md"]) - 1) :
      (~FailsAt(i)
       /\ parseTaskLine(vault["notes.md"][i + 1], NotesFile, i, customStages) # NoTask)
      => /\ parseTaskLine(vault["notes.md"][i + 1], NotesFile, i, customStages)
              \in Range(dOut.tasks)
         /\ parseTaskLine(vault["notes.md"][i + 1], NotesFile, i, customStages)
              \in Range(cache["notes.md"].tasks)

----------------------------------------------------------------------------
(* Claims on the cache and the watchers *)

\* no pass of refreshAll and no refreshFile is under way
NoneUnderWay == passes = {} /\ \A p \in Paths : refreshing[p] = 0

\* C21: when no cache operation is under way, every entry under a path p
\* holds only tasks whose id is p:lineNumber; after renameFile the entry is
\* under the new path, none is under the old one, and no task of the
\* aggregate has an id built from the old path.
C21_EntryIdentity ==
  NoneUnderWay =>
    /\ \A p \in DOMAIN cache : \A task \in Range(cache[p].tasks) :
         task.id = TaskId(p, task.lineNumber)
    /\ cStep.op = "rename" =>
         /\ cStep.oldPath \notin DOMAIN cache
         /\ \A task \in Range(ForestTasks(allTasks)) :
              task.id # TaskId(cStep.oldPath, task.lineNumber)

----------------------------------------------------------------------------
(* Label harness: parseTaskLine on a task line with a delimited label      *)
(* block, with or without an inline priority tag, under the default or a   *)
(* custom list of stages.                                                  *)

\* fields of the label block
MaxFields == 3

Fields ==
  {"John", "Website", "2025-03-01", "Due 2025-03-05", "2025-02-31", "Requested", "Review",
   "High", "a@b"} \cup LongNames

Labels == UNION {[1..n -> Fields] : n \in 2..MaxFields}

InlineTags == {<<>>, <<TPriority("low")>>}

StageLists == {customStages, <<"Review">>}

InitLabel ==
  /\ DepIdle /\ CacheIdle /\ HierIdle /\ StoreIdle /\ UpdaterIdle
  /\ \E label \in Labels, tags \in InlineTags :
       pLine = Line(<<>>, " ", <<TMeta(label), W("Ship")>> \o tags)
  /\ \E custom \in StageLists : pLine2 = Line(<<>>, NOBOX, <<TMeta(custom)>>)
  /\ pTask = NoTask
  /\ pTask2 = NoTask
  /\ pPc = "input"

\* the label of the line and the custom stages of the settings
LabelParts == pLine.body[1].parts
CustomOfRun == pLine2.body[1].parts

ParseLabel ==
  /\ pPc = "input"
  /\ pTask' = parseTaskLine(pLine, NotesFile, 0, CustomOfRun)
  /\ pPc' = "parsed"
  /\ UNCHANGED <<pLine, pLine2, pTask2, hierVars, storeVars, updaterVars, depVars, cacheVars>>

NextLabel ==
  \/ ParseLabel

SpecLabel == InitLabel /\ [][NextLabel]_vars

InlinePriority == IF Len(pLine.body) > 2 THEN pLine.body[3].s ELSE NULL

\* the class of a field.  As the claim states it, a field is a date only if
\* it names a day; in the code a field with the shape of a date is a date
\* field whether or not it names a day ("baddate").
KindInCode(f) ==
  IF DateWithPrefix(f) # NULL
  THEN (IF validateDate(DateWithPrefix(f)) THEN "date" ELSE "baddate")
  ELSE IF f \in Range(STAGES \o CustomOfRun) THEN "stage"
  ELSE IF toLowerCase(f) \in Range(PRIORITIES) THEN "priority"
  ELSE "name"

KindAsStated(f) ==
  IF DateWithPrefix(f) # NULL /\ validateDate(DateWithPrefix(f)) THEN "date"
  ELSE IF f \in Range(STAGES \o CustomOfRun) THEN "stage"
  ELSE IF toLowerCase(f) \in Range(PRIORITIES) THEN "priority"
  ELSE "name"

\* the positions of the fields of a class, and the last field of a class
\* (NULL without one)
FieldsOfKind(kinds, kind) == {i \in DOMAIN kinds : kinds[i] = kind}

LastOfKind(parts, kinds, kind) ==
  IF FieldsOfKind(kinds, kind) = {} THEN NULL
  ELSE parts[CHOOSE i \in FieldsOfKind(kinds, kind) :
               \A j \in FieldsOfKind(kinds, kind) : j <= i]

\* the first position of a set that passes a test, 0 without one
FirstValid(positions, parts, Valid(_)) ==
  IF \E i \in positions : Valid(parts[i])
  THEN Least({i \in positions : Valid(parts[i])}) ELSE 0

AnyName(f) == TRUE

\* date, stage and priority of the task are those of the last field of
\* their class, the priority unless the line has an inline priority tag
DateStagePriority(parts, kinds) ==
  /\ pTask.dueDate = (IF LastOfKind(parts, kinds, "date") = NULL THEN NULL
                      ELSE DateWithPrefix(LastOfKind(parts, kinds, "date")))
  /\ pTask.stage = LastOfKind(parts, kinds, "stage")
  /\ pTask.priority = (IF InlinePriority # NULL THEN InlinePriority
                       ELSE IF LastOfKind(parts, kinds, "priority") = NULL THEN NULL
                       ELSE toLowerCase(LastOfKind(parts, kinds, "priority")))

\* owner and project of the task are the fields at two positions (none at
\* position 0)
OwnerProject(parts, o, p) ==
  /\ pTask.owner = (IF o = 0 THEN NULL ELSE parts[o])
  /\ pTask.project = (IF p = 0 THEN NULL ELSE parts[p])

\* C22 as stated: a field is the due date if it is a valid date, else the
\* stage if it is a stage name, else the priority if it is a priority
\* word; the first of the other fields is the owner and the next one the
\* project; an inline priority tag overrides the priority word.
C22_ClassifiedAsStated ==
  pPc = "parsed" =>
    \E kinds \in {[i \in DOMAIN LabelParts |-> KindAsStated(LabelParts[i])]} :
      /\ DateStagePriority(LabelParts, kinds)
      /\ \E o \in {FirstValid(FieldsOfKind(kinds, "name"), LabelParts, AnyName)} :
           OwnerProject(LabelParts, o,
                        FirstValid(FieldsOfKind(kinds, "name") \ {o}, LabelParts, AnyName))

\* C22: a field with the shape of a date (optionally prefixed by Due) is a
\* date field, and the due date is the last date field that names a day;
\* the stage is the last other field that is a stage name, the priority
\* the last other field that is a priority word, unless the line has an
\* inline priority tag, which wins; of the remaining fields the first that
\* is a valid owner name is the owner, and the first of the others that is
\* a valid project name is the project.
C22_Classified ==
  pPc = "parsed" =>
    \E kinds \in {[i \in DOMAIN LabelParts |-> KindInCode(LabelParts[i])]} :
      /\ DateStagePriority(LabelParts, kinds)
      /\ \E o \in {FirstValid(FieldsOfKind(kinds, "name"), LabelParts, validateOwner)} :
           OwnerProject(LabelParts, o,
                        FirstValid(FieldsOfKind(kinds, "name") \ {o}, LabelParts,
                                   validateProject))

\* a label with a date-shaped field that names no day ahead of a name has
\* been parsed: the name is the owner and there is no due date
C22_Witness ==
  /\ pPc = "parsed"
  /\ LabelParts = <<"2025-02-31", "John">>
  /\ pTask.owner = "John"
  /\ pTask.dueDate = NULL

----------------------------------------------------------------------------
(* Late undo harness: the runs of the updater harness, each followed by    *)
(* one more undo once the other operations are over.                       *)

UndoAtEnd ==
  /\ now = MaxOps
  /\ \E fault \in Faults \ {"create"} :
       Commit("undo", NoTask, <<>>, fault,
              undo(vault, undoStack, fault),
              TrailAfterUndo(undo(vault, undoStack, fault)))

NextLateUndo ==
  \/ Refresh
  \/ UpdateTask
  \/ ToggleTask
  \/ UpdateTaskStage
  \/ DeleteTask
  \/ CreateTask
  \/ Undo
  \/ ExternalEdit
  \/ UndoAtEnd

SpecLateUndo == InitUpdater /\ [][NextLateUndo]_vars

----------------------------------------------------------------------------
(* Claims on undo and the undo stack                                       *)

\* the step is a successful undo of an update: the entry on top of the
\* stack is reversed by writing its original line at its line index
UndoOfUpdate ==
  /\ last'.op = "undo"
  /\ now' = now + 1
  /\ last'.result.success
  /\ undoStack # <<>>
  /\ Last(undoStack).newLine # EmptyLine

\* the line now at the index of the entry is not the line the undone
\* operation wrote there
UnrelatedLine ==
  /\ Last(undoStack).lineNumber < Len(vault[Last(undoStack).filePath])
  /\ vault[Last(undoStack).filePath][Last(undoStack).lineNumber + 1] # Last(undoStack).newLine

\* C23: undo never overwrites a line other than the one written by the
\* operation it undoes: when the line now at the index of the entry is not
\* the line that operation wrote, undo leaves it as it is.
C23_UndoKeepsUnrelated ==
  [][(UndoOfUpdate /\ UnrelatedLine)
       => vault'[Last(undoStack).filePath][Last(undoStack).lineNumber + 1]
            = vault[Last(undoStack).filePath][Last(undoStack).lineNumber + 1]]_vars

\* the step is an updater operation that returns success = false
FailingOperation ==
  /\ now' = now + 1
  /\ last' # last
  /\ last'.op \in {"updateTask", "toggleTask", "updateTaskStage", "deleteTask", "createTask",
                   "undo"}
  /\ ~last'.result.success

\* C24: an updater operation that returns success = false leaves the undo
\* stack exactly as it was: a failing update or delete adds no entry and a
\* failing undo discards none.
C24_FailureKeepsStack ==
  [][FailingOperation => undoStack' = undoStack]_vars

----------------------------------------------------------------------------
(* Claims on the statistics of the cache                                   *)

\* C25: after a completed cache operation CacheStats.totalTasks and
\* TaskStats.total, which is completed + active, equal the number of tasks
\* held in all cache entries, sub-tasks included.
C25_TotalsCountEntries ==
  (cStep.op \in {"refreshAll", "refreshFile", "delete"} /\ NoneUnderWay) =>
    /\ stats.totalTasks = Len(EntryTasks(cache))
    /\ getTaskStats(allTasks).total = Len(EntryTasks(cache))
    /\ getTaskStats(allTasks).completed + getTaskStats(allTasks).active
         = getTaskStats(allTasks).total

----------------------------------------------------------------------------
(* Bulk delete harness: the caller selects some of the tasks a fresh parse *)
(* of the store shows, in any order, and hands them to bulkDelete.         *)

TwinDoc == <<HeadingLine, CallLine, CallLine, TextLine(<<W("Intro")>>)>>

SelectionVaults ==
  { [p \in {"notes.md"} |-> TwinDoc],
    [p \in {"notes.md"} |-> <<CallLine>>],
    [p \in {"notes.md", "proj/plan.md"} |->
       IF p = "notes.md" THEN TwinDoc ELSE <<RecurringLine, DoneLine>>],
    [p \in {"notes.md", "proj/plan.md"} |->
       IF p = "notes.md" THEN <<HeadingLine, RecurringLine, DoneLine>> ELSE <<CallLine>>] }

\* the lists of distinct tasks taken from a set
ListsOf(T) ==
  {l \in UNION {[1..n -> T] : n \in 1..Cardinality(T)} :
     \A i, j \in DOMAIN l : i # j => l[i] # l[j]}

InitBulkDelete ==
  /\ DepIdle /\ CacheIdle /\ ParserIdle /\ HierIdle /\ UpdaterIdle
  /\ vault \in SelectionVaults
  /\ west = FALSE
  /\ now = 0
  /\ faults = 0

SelectTasks ==
  /\ now = 0
  /\ dAll = <<>>
  /\ \E l \in ListsOf(VisibleTasks) : dAll' = l
  /\ UNCHANGED <<parserVars, hierVars, storeVars, updaterVars, dTask, dOut, dPc, cacheVars>>

BulkDeleteSelected ==
  /\ now = 0
  /\ dAll # <<>>
  /\ \E fault \in Faults \ {"create"}, faultAt \in 1..Len(dAll) :
       /\ fault = "none" => faultAt = 1
       /\ Commit("bulkDelete", NoTask, <<>>, fault,
                 bulkDelete(vault, undoStack, now, dAll, fault, faultAt),
                 BulkTrail(bulkDelete(vault, undoStack, now, dAll, fault, faultAt)))

NextBulkDelete ==
  \/ SelectTasks
  \/ BulkDeleteSelected

SpecBulkDelete == InitBulkDelete /\ [][NextBulkDelete]_vars

\* the 0-based indexes of the lines of a document that the selection targets
Targeted(path) == {dAll[i].lineNumber : i \in {j \in DOMAIN dAll : dAll[j].file.path = path}}

\* the 1-based positions of the lines that are not targeted, and their
\* lines in document order
KeptAt(path) == {i \in 1..Len(last.before[path]) : (i - 1) \notin Targeted(path)}

KeptLines(path) ==
  [k \in 1..Cardinality(KeptAt(path)) |->
     last.before[path][CHOOSE i \in KeptAt(path) :
                         Cardinality({j \in KeptAt(path) : j < i}) = k - 1]]

\* C26: bulkDelete on distinct current tasks, with no store failure,
\* deletes all of them whatever the order they are passed in: successful is
\* their number, failed is 0, exactly the targeted lines are gone and the
\* other lines keep their content and their order (a document left without
\* lines is stored as one empty line).
C26_AllDeleted ==
  (last.op = "bulkDelete" /\ last.fault = "none") =>
    /\ last.result.successful = Len(dAll)
    /\ last.result.failed = 0
    /\ DOMAIN last.after = DOMAIN last.before
    /\ \A path \in DOMAIN last.before :
         last.after[path] = IF KeptLines(path) = <<>> THEN <<EmptyLine>> ELSE KeptLines(path)

\* two tasks of one document, passed upper line first, have been deleted
C26_Witness ==
  /\ last.op = "bulkDelete"
  /\ last.fault = "none"
  /\ Len(dAll) >= 2
  /\ dAll[1].file.path = dAll[2].file.path
  /\ dAll[1].lineNumber < dAll[2].lineNumber
  /\ last.result.successful = Len(dAll)
  /\ last.after # last.before

----------------------------------------------------------------------------
(* Claims on blocked tasks                                                 *)

\* C27: when the id of another task B of the universe is in the
\* blocksTasks of the status of an incomplete task A, the status of B has
\* isBlocked, and B is among getBlockedTasks and not among getReadyTasks.
C27_BlockedWhenBlocksListed ==
  (dPc = "status" /\ ~dTask.completed) =>
    \A i \in 1..Len(dAll) :
      (dAll[i].id # dTask.id /\ dAll[i].id \in Range(dOut.status.blocksTasks)) =>
        /\ getDependencyStatus(dAll[i], dAll).isBlocked
        /\ dAll[i] \in Range(getBlockedTasks(dAll))
        /\ dAll[i] \notin Range(getReadyTasks(dAll))

----------------------------------------------------------------------------
(* Notification harness: the dependency harness with the notification      *)
(* summary taken over its universe.                                        *)

\* getNotificationSummary: the blockedTasks of the summary (the lists by
\* due date are taken from the same incompleteTasks and do not enter it)
BlockedOfSummary(allTasks_) ==
  getBlockedTasks(SelectSeq(allTasks_, LAMBDA t : ~t.completed))

DSummary ==
  /\ dPc = "input"
  /\ dOut' = [blockedTasks |-> BlockedOfSummary(dAll)]
  /\ dPc' = "summary"
  /\ UNCHANGED <<dAll, dTask, parserVars, hierVars, storeVars, updaterVars, cacheVars>>

NextNotify ==
  \/ DAsk
  \/ DStatus
  \/ DSummary

SpecNotify == InitDeps /\ [][NextNotify]_vars

\* C28: the blockedTasks of the summary are exactly the incomplete tasks
\* whose status over the full list passed in says blocked; a task all of
\* whose blockers are completed is not among them.
C28_BlockedOfSummary ==
  dPc = "summary" =>
    Range(dOut.blockedTasks)
      = {t \in Range(dAll) : ~t.completed /\ getDependencyStatus(t, dAll).isBlocked}

----------------------------------------------------------------------------
(* Settling harness: the plugin with all its watchers; the refresh command *)
(* is given a bounded number of times, and the debounced refresh fires     *)
(* after every burst of watcher events.  Every read is answered and the    *)
(* debounce timer runs out, so these steps are taken whenever they stay    *)
(* possible.                                                               *)

\* the debounced refresh fires, 300 ms after the last watcher event
DebouncedRefresh ==
  /\ refreshDue
  /\ refreshDue' = FALSE
  /\ \E order \in Orders(DOMAIN vault) : BeginPass(order)

NextSettle ==
  \/ ModifyDoc
  \/ CreateDoc
  \/ DeleteDoc
  \/ RenameDoc
  \/ RefreshFileResume
  \/ RefreshCommand
  \/ DebouncedRefresh
  \/ PassResume

SpecSettle == InitWatch /\ [][NextSettle]_vars

\* a read that is waited for is answered, and an armed debounce timer runs
\* out.  RefreshFileResume is possible exactly while a refreshFile waits
\* and PassResume exactly while a pass is under way; their weak fairness
\* is written out with these conditions.
FairSettle ==
  /\ SpecSettle
  /\ ([]<>(\A p \in Paths : refreshing[p] = 0) \/ []<><<RefreshFileResume>>_vars)
  /\ ([]<>(passes = {}) \/ []<><<PassResume>>_vars)
  /\ WF_vars(DebouncedRefresh)

\* one entry for every eligible existing document and none for another
\* path, each with the tasks a parse of the current content gives
CacheMatchesStore ==
  /\ DOMAIN cache = {p \in DOMAIN vault : shouldParseFile(FileAt(p))}
  /\ \A p \in DOMAIN cache : cache[p].tasks = parseTasksFromFile(vault, FileAt(p), "none")

\* nothing is outstanding: no pass, no refreshFile, no debounced refresh
Settled == NoneUnderWay /\ ~refreshDue

\* C29: after the watcher events, once no further event occurs and every
\* outstanding refreshFile and refreshAll has completed, with no read
\* having failed, the cache holds exactly one entry for each eligible
\* existing document, with the tasks of a parse of its current content,
\* and no entry for any other path.
C29_CacheSettles ==
  <>[](faults = 0 => (Settled /\ CacheMatchesStore))

----------------------------------------------------------------------------
(* Claims on the chain of occurrences of a recurring task                  *)

\* the last operation completed a recurring task and its roll-forward
\* appended the next occurrence
OccurrenceCreated ==
  /\ CompletedRecurring
  /\ last.fault = "none"
  /\ Len(DocAfter) = Len(DocBefore) + 1

\* C30: the occurrence that the roll-forward creates carries the recurrence
\* rule of the completed task, so that completing it rolls forward again
\* (until the end date of the rule is exceeded).
C30_RecurrenceCarried ==
  OccurrenceCreated =>
    /\ AppendedTask # NoTask
    /\ AppendedTask.recurrence = last.task.recurrence

====
